---- MODULE Spec2Model ----
(***************************************************************************)
(* State-machine model of the orchestration core of allin1-ai-assistant:   *)
(*   - ComposioActionExecutor (priority queue, retry, cancellation),       *)
(*     src/src/infrastructure/composio_action_executor.py                  *)
(*   - ChatService / WorkflowSession (pause and resume on interactions),   *)
(*     src/src/infrastructure/chat_service.py,                             *)
(*     src/src/domain/models/chat_models.py,                               *)
(*     src/src/controllers/chat_controller.py                              *)
(* Texts (user ids, app names, error messages) are sequences of lower-case *)
(* tokens; a substring test of the code is a token-membership test here.   *)
(* Every coroutine is cut at its awaits: one action per atomic segment.    *)
(***************************************************************************)
EXTENDS Integers, Sequences, FiniteSets, TLC

\* ------------------------------------------------------------------ bounds
MaxRetryReq == 1
MaxQueueReq == 2
MaxSessions == 2
MaxInteractions == 2
MaxConversations == 1
MaxClock == 1600
MaxPlanReq == 2
MaxChildren == 2
MaxNestedChildren == 1
MaxPlanActions == 3
MaxRetriesInput == 10

\* ------------------------------------------------------- program constants
DefaultMaxRetries == 3
MaxBackoffSeconds == 300
InteractionTTLMinutes == 30
SessionRetentionMinutes == 1440

\* ----------------------------------------------------------------- inputs
NoText == <<>>

\* class ExecutionPriority, in the order the Enum declares (and iterates) it
ExecutionPriority == <<"low", "normal", "high", "urgent">>
Priorities == {ExecutionPriority[i] : i \in DOMAIN ExecutionPriority}

Input(u, a, p, h) ==
  [user_id |-> u, app_name |-> a, priority |-> p, has_parameters |-> h]

\* requests of the retry scenarios: plain ids and names, and ids and names
\* whose text contains a transient indicator
RetryUsers == {<<"alice">>, <<"user", "429">>}
RetryInputs ==
  {Input(<<"alice">>, <<"gmail">>, "normal", FALSE),
   Input(<<"alice">>, <<"gmail">>, "normal", TRUE),
   Input(<<"user", "429">>, <<"gmail">>, "normal", TRUE),
   Input(<<"alice">>, <<"connection", "hub">>, "normal", TRUE)}
\* texts a collaborator can fail with (one transient-classified, one not)
RetryErrors == {<<"timeout">>, <<"invalid", "request">>}

\* requests of the queue scenarios: every priority, two owners
QueueUsers == {<<"alice">>, <<"bob">>}
QueueInputs ==
  {Input(<<"alice">>, <<"gmail">>, "low", TRUE),
   Input(<<"alice">>, <<"gmail">>, "normal", FALSE),
   Input(<<"bob">>, <<"gmail">>, "high", TRUE),
   Input(<<"alice">>, <<"gmail">>, "urgent", TRUE)}
QueueErrors == {<<"invalid", "request">>}

\* ------------------------------------------------------------- variables
VARIABLES
  requests,              \* ActionRequest objects, by id
  pc,                    \* where each request's coroutine stands
  _pending_requests,     \* keys of self._pending_requests
  _execution_queues,     \* self._execution_queues: priority -> list of ids
  _running_executions,   \* keys of self._running_executions
  _completed_executions, \* self._completed_executions: id -> ActionResult
  frames,                \* the `result` object of every live frame of
                         \* _execute_single_action, outermost first
  returned,              \* value returned by the outermost frame
  _processing_active,    \* self._processing_active
  _queue_processor_task, \* where the task running _process_queue stands
  _execution_stats,      \* total / successful / failed counters
  conversations,         \* ChatService.conversations
  workflow_sessions,     \* WorkflowSession objects, by session id
  service_sessions,      \* keys of ChatService.workflow_sessions
  interactions,          \* InteractionData objects and ChatService.interactions
  in_flight,             \* where the handler working on each session stands
  credentials,           \* credential store: (user, app) pairs with an account
  now,                   \* datetime.utcnow(), in minutes
  workflow,              \* the frame of one execute_workflow call
  task_execution,        \* the frame and records of one execute_task_tree call
  workflow_result        \* the WorkflowResult of one ComposioWorkflowService run

execVars == <<requests, pc, _pending_requests, _execution_queues,
              _running_executions, _completed_executions, frames, returned,
              _processing_active, _queue_processor_task, _execution_stats>>
chatVars == <<conversations, workflow_sessions, service_sessions,
              interactions, in_flight, credentials, now>>
planVars == <<workflow>>
treeVars == <<task_execution>>
svcVars == <<workflow_result>>
vars == <<requests, pc, _pending_requests, _execution_queues,
          _running_executions, _completed_executions, frames, returned,
          _processing_active, _queue_processor_task, _execution_stats,
          conversations, workflow_sessions, service_sessions,
          interactions, in_flight, credentials, now, workflow,
          task_execution, workflow_result>>

\* ======================================================================
\*                        ComposioActionExecutor
\* ======================================================================

\* @dataclass ActionRequest (the fields the executor reads)
ActionRequest(u, a, p, hasParams) ==
  [user_id |-> u, app_name |-> a, priority |-> p, retry_count |-> 0,
   max_retries |-> DefaultMaxRetries, has_parameters |-> hasParams]

NoRequest ==
  [user_id |-> NoText, app_name |-> NoText, priority |-> "normal",
   retry_count |-> 0, max_retries |-> 0, has_parameters |-> FALSE]

\* @dataclass ActionResult
\* data: "none" is None, "empty" a falsy value such as {}, "some" any other
ActionResult(st) ==
  [status |-> st, error |-> NoText, retry_count |-> 0,
   cancellation_requested |-> FALSE, cancelled_by |-> NoText,
   data |-> "none"]

NoResult == ActionResult("none")

Top(s) == s[Len(s)]

SetTop(s, r) == [s EXCEPT ![Len(s)] = r]

\* list.remove(x): drops the first occurrence
RECURSIVE Remove(_, _)
Remove(s, x) ==
  IF s = <<>> THEN <<>>
  ELSE IF Head(s) = x THEN Tail(s)
  ELSE <<Head(s)>> \o Remove(Tail(s), x)

InSeq(s, x) == \E i \in DOMAIN s : s[i] = x

\* _is_retryable_error: any indicator occurs in the lower-cased message
retryable_indicators ==
  {"timeout", "connection", "network", "rate limit", "temporary",
   "service unavailable", "503", "429"}

_is_retryable_error(error_message) ==
  \E i \in DOMAIN error_message : error_message[i] \in retryable_indicators

\* f"User {request.user_id} not authenticated for {request.app_name}"
AuthErrorMessage(u, a) ==
  <<"user">> \o u \o <<"not", "authenticated", "for">> \o a

\* "Failed to generate parameters from natural language input"
ParameterErrorMessage ==
  <<"failed", "to", "generate", "parameters", "from", "natural",
    "language", "input">>

ExecInit(ids) ==
  /\ requests = [id \in ids |-> NoRequest]
  /\ pc = [id \in ids |-> "unused"]
  /\ _pending_requests = {}
  /\ _execution_queues = [p \in Priorities |-> <<>>]
  /\ _running_executions = {}
  /\ _completed_executions = [id \in ids |-> NoResult]
  /\ frames = [id \in ids |-> <<>>]
  /\ returned = [id \in ids |-> NoResult]
  /\ _processing_active = FALSE
  /\ _queue_processor_task = "none"
  /\ _execution_stats = [total_executions |-> 0, successful_executions |-> 0,
                         failed_executions |-> 0]

\* the request ids of the run
ReqIds == DOMAIN pc

\* uuid4(): a fresh id
FreshReq == CHOOSE id \in ReqIds : pc[id] = "unused" /\
                                   \A j \in ReqIds : pc[j] = "unused" => id <= j

\* first segment of _execute_single_action: the result object is created
\* and registered, then the coroutine awaits the credential check
EnterFrame(id) ==
  /\ frames' = [frames EXCEPT ![id] = Append(@, ActionResult("running"))]
  /\ _running_executions' = _running_executions \cup {id}
  /\ pc' = [pc EXCEPT ![id] = "auth"]

\* start_processing: the flag is set and the loop task is created
start_processing ==
  /\ ~_processing_active
  /\ _processing_active' = TRUE
  /\ _queue_processor_task' = "polling"
  /\ UNCHANGED <<requests, pc, _pending_requests, _execution_queues,
                 _running_executions, _completed_executions, frames,
                 returned, _execution_stats>>
  /\ UNCHANGED chatVars
  /\ UNCHANGED planVars
  /\ UNCHANGED treeVars
  /\ UNCHANGED svcVars

\* stop_processing: the flag is cleared and the loop task is cancelled
stop_processing ==
  /\ _processing_active
  /\ _processing_active' = FALSE
  /\ _queue_processor_task' = "none"
  /\ UNCHANGED <<requests, pc, _pending_requests, _execution_queues,
                 _running_executions, _completed_executions, frames,
                 returned, _execution_stats>>
  /\ UNCHANGED chatVars
  /\ UNCHANGED planVars
  /\ UNCHANGED treeVars
  /\ UNCHANGED svcVars

\* execute_action(..., execute_immediately=False): queue the request
execute_action_queued(u, a, p, hasParams) ==
  /\ \E id \in ReqIds : pc[id] = "unused"
  /\ requests' = [requests EXCEPT ![FreshReq] = ActionRequest(u, a, p, hasParams)]
  /\ _pending_requests' = _pending_requests \cup {FreshReq}
  /\ _execution_queues' = [_execution_queues EXCEPT ![p] = Append(@, FreshReq)]
  /\ pc' = [pc EXCEPT ![FreshReq] = "pending"]
  /\ UNCHANGED <<_running_executions, _completed_executions, frames,
                 returned, _processing_active, _queue_processor_task, _execution_stats>>
  /\ UNCHANGED chatVars
  /\ UNCHANGED planVars
  /\ UNCHANGED treeVars
  /\ UNCHANGED svcVars

\* execute_action(..., execute_immediately=True): run in the caller
execute_action_immediate(u, a, p, hasParams) ==
  /\ \E id \in ReqIds : pc[id] = "unused"
  /\ requests' = [requests EXCEPT ![FreshReq] = ActionRequest(u, a, p, hasParams)]
  /\ EnterFrame(FreshReq)
  /\ UNCHANGED <<_pending_requests, _execution_queues, _completed_executions,
                 returned, _processing_active, _queue_processor_task, _execution_stats>>
  /\ UNCHANGED chatVars
  /\ UNCHANGED planVars
  /\ UNCHANGED treeVars
  /\ UNCHANGED svcVars

\* the lane one iteration of _process_queue pops:
\* `for priority in ExecutionPriority: if queue: ...; break`
FirstNonEmptyLane(order) ==
  LET idx == {i \in DOMAIN order : _execution_queues[order[i]] # <<>>}
      i0 == CHOOSE i \in idx : \A j \in idx : i <= j
  IN order[i0]

\* a queue loop that takes the newest request of the lane
_process_queue_newest_first ==
  /\ _processing_active
  /\ _queue_processor_task = "polling"
  /\ \E p \in Priorities : _execution_queues[p] # <<>>
  /\ LET lane == FirstNonEmptyLane(ExecutionPriority)
         request_id == _execution_queues[lane][Len(_execution_queues[lane])]
     IN /\ _execution_queues' =
             [_execution_queues EXCEPT ![lane] = SubSeq(@, 1, Len(@) - 1)]
        /\ IF request_id \in _pending_requests
           THEN /\ _pending_requests' = _pending_requests \ {request_id}
                /\ pc' = [pc EXCEPT ![request_id] = "dispatched"]
           ELSE UNCHANGED <<_pending_requests, pc>>
  /\ UNCHANGED <<requests, _running_executions, _completed_executions,
                 frames, returned, _processing_active, _queue_processor_task, _execution_stats>>
  /\ UNCHANGED chatVars
  /\ UNCHANGED planVars
  /\ UNCHANGED treeVars
  /\ UNCHANGED svcVars

\* a queue loop that leaves the dispatched request in the pending map
_process_queue_keeps_pending ==
  /\ _processing_active
  /\ _queue_processor_task = "polling"
  /\ \E p \in Priorities : _execution_queues[p] # <<>>
  /\ LET lane == FirstNonEmptyLane(ExecutionPriority)
         request_id == Head(_execution_queues[lane])
     IN /\ _execution_queues' = [_execution_queues EXCEPT ![lane] = Tail(@)]
        /\ IF request_id \in _pending_requests
           THEN /\ UNCHANGED _pending_requests
                /\ pc' = [pc EXCEPT ![request_id] = "dispatched"]
           ELSE UNCHANGED <<_pending_requests, pc>>
  /\ UNCHANGED <<requests, _running_executions, _completed_executions,
                 frames, returned, _processing_active, _queue_processor_task, _execution_stats>>
  /\ UNCHANGED chatVars
  /\ UNCHANGED planVars
  /\ UNCHANGED treeVars
  /\ UNCHANGED svcVars

\* one iteration of the while loop of _process_queue that finds a request
_process_queue ==
  /\ _processing_active
  /\ _queue_processor_task = "polling"
  /\ \E p \in Priorities : _execution_queues[p] # <<>>
  /\ LET lane == FirstNonEmptyLane(ExecutionPriority)
         request_id == Head(_execution_queues[lane])
     IN /\ _execution_queues' = [_execution_queues EXCEPT ![lane] = Tail(@)]
        /\ IF request_id \in _pending_requests
           THEN /\ _pending_requests' = _pending_requests \ {request_id}
                /\ pc' = [pc EXCEPT ![request_id] = "dispatched"]
           ELSE UNCHANGED <<_pending_requests, pc>>
  /\ UNCHANGED <<requests, _running_executions, _completed_executions,
                 frames, returned, _processing_active, _queue_processor_task, _execution_stats>>
  /\ UNCHANGED chatVars
  /\ UNCHANGED planVars
  /\ UNCHANGED treeVars
  /\ UNCHANGED svcVars

\* a queue loop that an exception of one iteration ends
_process_queue_stops_on_error ==
  /\ _processing_active
  /\ _queue_processor_task = "polling"
  /\ _queue_processor_task' = "none"
  /\ UNCHANGED <<requests, pc, _pending_requests, _execution_queues,
                 _running_executions, _completed_executions, frames,
                 returned, _processing_active, _execution_stats>>
  /\ UNCHANGED chatVars
  /\ UNCHANGED planVars
  /\ UNCHANGED treeVars
  /\ UNCHANGED svcVars

\* an iteration of _process_queue whose try body raises before it takes a
\* request: `except Exception` logs the error and sleeps for ten seconds
_process_queue_raises ==
  /\ _processing_active
  /\ _queue_processor_task = "polling"
  /\ _queue_processor_task' = "backoff"
  /\ UNCHANGED <<requests, pc, _pending_requests, _execution_queues,
                 _running_executions, _completed_executions, frames,
                 returned, _processing_active, _execution_stats>>
  /\ UNCHANGED chatVars
  /\ UNCHANGED planVars
  /\ UNCHANGED treeVars
  /\ UNCHANGED svcVars

\* the sleep of the except branch ends and the while loop goes on
_process_queue_resumes ==
  /\ _queue_processor_task = "backoff"
  /\ _queue_processor_task' = "polling"
  /\ UNCHANGED <<requests, pc, _pending_requests, _execution_queues,
                 _running_executions, _completed_executions, frames,
                 returned, _processing_active, _execution_stats>>
  /\ UNCHANGED chatVars
  /\ UNCHANGED planVars
  /\ UNCHANGED treeVars
  /\ UNCHANGED svcVars

\* the task made by asyncio.create_task starts to run
TaskStart(id) ==
  /\ pc[id] = "dispatched"
  /\ EnterFrame(id)
  /\ UNCHANGED <<requests, _pending_requests, _execution_queues,
                 _completed_executions, returned, _processing_active, _queue_processor_task,
                 _execution_stats>>
  /\ UNCHANGED chatVars
  /\ UNCHANGED planVars
  /\ UNCHANGED treeVars
  /\ UNCHANGED svcVars

\* the `finally` blocks: the innermost frame leaves the running map and
\* stores its result, then every enclosing frame (suspended in
\* `return await self._execute_single_action(request)`) runs its own
\* `finally` and overwrites the stored entry with its own result object;
\* the caller receives the innermost result
Conclude(id, result) ==
  LET fs == SetTop(frames[id], result)
  IN /\ frames' = [frames EXCEPT ![id] = fs]
     /\ _running_executions' = _running_executions \ {id}
     /\ _completed_executions' = [_completed_executions EXCEPT ![id] = fs[1]]
     /\ returned' = [returned EXCEPT ![id] = result]
     /\ pc' = [pc EXCEPT ![id] = "done"]

\* `except Exception as e:` of _execute_single_action
ExceptionHandler(id, msg) ==
  LET request == requests[id]
      failed == [Top(frames[id]) EXCEPT !.status = "failed", !.error = msg]
  IN IF request.retry_count < request.max_retries /\ _is_retryable_error(msg)
     THEN /\ requests' = [requests EXCEPT ![id].retry_count = @ + 1]
          /\ frames' = [frames EXCEPT ![id] =
                          SetTop(@, [failed EXCEPT !.status = "retrying",
                                       !.retry_count = request.retry_count + 1])]
          /\ pc' = [pc EXCEPT ![id] = "backoff"]
          /\ UNCHANGED <<_running_executions, _completed_executions, returned>>
     ELSE /\ Conclude(id, failed)
          /\ UNCHANGED requests

\* _update_execution_stats (the global counters)
_update_execution_stats(result) ==
  _execution_stats' =
    [_execution_stats EXCEPT
       !.total_executions = @ + 1,
       !.successful_executions = IF result.status = "completed" THEN @ + 1 ELSE @,
       !.failed_executions = IF result.status = "completed" THEN @ ELSE @ + 1]

Outcome(k, m) == [kind |-> k, msg |-> m]

\* Step 1: _check_app_authentication returns (it never raises)
check_app_authentication_done(id, authenticated) ==
  /\ pc[id] = "auth"
  /\ IF ~authenticated
     THEN ExceptionHandler(id, AuthErrorMessage(requests[id].user_id,
                                                requests[id].app_name))
     ELSE /\ pc' = [pc EXCEPT ![id] =
                      IF requests[id].has_parameters THEN "validate" ELSE "params"]
          /\ UNCHANGED <<requests, frames, _running_executions,
                         _completed_executions, returned>>
  /\ UNCHANGED <<_pending_requests, _execution_queues, _processing_active, _queue_processor_task,
                 _execution_stats>>
  /\ UNCHANGED chatVars
  /\ UNCHANGED planVars
  /\ UNCHANGED treeVars
  /\ UNCHANGED svcVars

\* Step 2: generate_parameters_from_text returns or raises
generate_parameters_done(id, out) ==
  /\ pc[id] = "params"
  /\ CASE out.kind = "ok" ->
            /\ requests' = [requests EXCEPT ![id].has_parameters = TRUE]
            /\ pc' = [pc EXCEPT ![id] = "validate"]
            /\ UNCHANGED <<frames, _running_executions,
                           _completed_executions, returned>>
       [] out.kind = "empty" -> ExceptionHandler(id, ParameterErrorMessage)
       [] OTHER -> ExceptionHandler(id, out.msg)
  /\ UNCHANGED <<_pending_requests, _execution_queues, _processing_active, _queue_processor_task,
                 _execution_stats>>
  /\ UNCHANGED chatVars
  /\ UNCHANGED planVars
  /\ UNCHANGED treeVars
  /\ UNCHANGED svcVars

\* Step 3: validate_and_complete_parameters returns or raises
validate_parameters_done(id, out) ==
  /\ pc[id] = "validate"
  /\ IF out.kind = "ok"
     THEN /\ pc' = [pc EXCEPT ![id] = "exec"]
          /\ UNCHANGED <<requests, frames, _running_executions,
                         _completed_executions, returned>>
     ELSE ExceptionHandler(id, out.msg)
  /\ UNCHANGED <<_pending_requests, _execution_queues, _processing_active, _queue_processor_task,
                 _execution_stats>>
  /\ UNCHANGED chatVars
  /\ UNCHANGED planVars
  /\ UNCHANGED treeVars
  /\ UNCHANGED svcVars

\* Steps 4 and 5: ComposioService.execute_tool returns (it catches every
\* exception and reports it as {'success': False, 'error': ...})
execute_tool_done(id, out) ==
  /\ pc[id] = "exec"
  /\ LET result == IF out.kind = "ok"
                   THEN [Top(frames[id]) EXCEPT !.status = "completed",
                                                !.data = "some"]
                   ELSE IF out.kind = "ok_empty"
                   THEN [Top(frames[id]) EXCEPT !.status = "completed",
                                                !.data = "empty"]
                   ELSE [Top(frames[id]) EXCEPT !.status = "failed",
                                                !.error = out.msg]
     IN /\ _update_execution_stats(result)
        /\ Conclude(id, result)
  /\ UNCHANGED <<requests, _pending_requests, _execution_queues,
                 _processing_active, _queue_processor_task>>
  /\ UNCHANGED chatVars
  /\ UNCHANGED planVars
  /\ UNCHANGED treeVars
  /\ UNCHANGED svcVars

\* `await asyncio.sleep(retry_delay)` is over: the recursive call starts
retry_after_backoff(id) ==
  /\ pc[id] = "backoff"
  /\ EnterFrame(id)
  /\ UNCHANGED <<requests, _pending_requests, _execution_queues,
                 _completed_executions, returned, _processing_active, _queue_processor_task,
                 _execution_stats>>
  /\ UNCHANGED chatVars
  /\ UNCHANGED planVars
  /\ UNCHANGED treeVars
  /\ UNCHANGED svcVars

\* get_execution_status(request_id) (NoResult is None)
get_execution_status(request_id) ==
  IF request_id \in _running_executions THEN Top(frames[request_id])
  ELSE IF _completed_executions[request_id] # NoResult
  THEN _completed_executions[request_id]
  ELSE IF request_id \in _pending_requests THEN ActionResult("pending")
  ELSE NoResult

\* get_user_execution_history(user_id): the request ids of the returned
\* items (no app_filter; the default limit of 50 exceeds the ids of a run).
\* The request of an execution is looked up in self._pending_requests.
get_user_execution_history(user_id) ==
  LET all_executions ==
        {id \in ReqIds : _completed_executions[id] # NoResult}
          \cup _running_executions
  IN {request_id \in all_executions :
        /\ request_id \in _pending_requests
        /\ requests[request_id].user_id = user_id}

\* cancel_execution without the removal of the id from its priority lane
cancel_execution_keeps_lane(request_id, user_id) ==
  /\ IF request_id \in _pending_requests /\ requests[request_id].user_id # user_id
     THEN UNCHANGED <<pc, _pending_requests, _execution_queues,
                      _completed_executions, frames>>
     ELSE IF request_id \in _pending_requests
     THEN /\ _pending_requests' = _pending_requests \ {request_id}
          /\ _execution_queues' = _execution_queues
          /\ _completed_executions' =
               [_completed_executions EXCEPT ![request_id] =
                  [ActionResult("cancelled") EXCEPT !.cancelled_by = user_id]]
          /\ pc' = [pc EXCEPT ![request_id] = "cancelled"]
          /\ UNCHANGED frames
     ELSE IF request_id \in _running_executions
     THEN /\ frames' = [frames EXCEPT ![request_id] =
                          SetTop(@, [Top(@) EXCEPT
                                       !.cancellation_requested = TRUE,
                                       !.cancelled_by = user_id])]
          /\ UNCHANGED <<pc, _pending_requests, _execution_queues,
                         _completed_executions>>
     ELSE UNCHANGED <<pc, _pending_requests, _execution_queues,
                      _completed_executions, frames>>
  /\ UNCHANGED <<requests, _running_executions, returned, _processing_active, _queue_processor_task,
                 _execution_stats>>
  /\ UNCHANGED chatVars
  /\ UNCHANGED planVars
  /\ UNCHANGED treeVars
  /\ UNCHANGED svcVars

\* the value cancel_execution(request_id, user_id) returns
cancel_execution_returns(request_id, user_id) ==
  IF request_id \in _pending_requests /\ requests[request_id].user_id # user_id
  THEN FALSE   \* PermissionError, caught by the method's own except
  ELSE request_id \in _pending_requests \/ request_id \in _running_executions

\* cancel_execution(request_id, user_id)
cancel_execution(request_id, user_id) ==
  /\ IF request_id \in _pending_requests /\ requests[request_id].user_id # user_id
     THEN UNCHANGED <<pc, _pending_requests, _execution_queues,
                      _completed_executions, frames>>
     ELSE IF request_id \in _pending_requests
     THEN /\ _pending_requests' = _pending_requests \ {request_id}
          /\ _execution_queues' =
               [_execution_queues EXCEPT ![requests[request_id].priority] =
                  Remove(@, request_id)]
          /\ _completed_executions' =
               [_completed_executions EXCEPT ![request_id] =
                  [ActionResult("cancelled") EXCEPT !.cancelled_by = user_id]]
          /\ pc' = [pc EXCEPT ![request_id] = "cancelled"]
          /\ UNCHANGED frames
     ELSE IF request_id \in _running_executions
     THEN /\ frames' = [frames EXCEPT ![request_id] =
                          SetTop(@, [Top(@) EXCEPT
                                       !.cancellation_requested = TRUE,
                                       !.cancelled_by = user_id])]
          /\ UNCHANGED <<pc, _pending_requests, _execution_queues,
                         _completed_executions>>
     ELSE UNCHANGED <<pc, _pending_requests, _execution_queues,
                      _completed_executions, frames>>
  /\ UNCHANGED <<requests, _running_executions, returned, _processing_active, _queue_processor_task,
                 _execution_stats>>
  /\ UNCHANGED chatVars
  /\ UNCHANGED planVars
  /\ UNCHANGED treeVars
  /\ UNCHANGED svcVars

Raises(errors) == {Outcome("raise", m) : m \in errors}

Fails(errors) == {Outcome("fail", m) : m \in errors}

Ok == Outcome("ok", NoText)

\* the tool succeeded and returned an empty value
OkEmpty == Outcome("ok_empty", NoText)

\* the steps of _execute_single_action, for collaborators failing with `errors`
ExecutionSteps(errors) ==
  \/ \E id \in ReqIds, au \in BOOLEAN : check_app_authentication_done(id, au)
  \/ \E id \in ReqIds, out \in {Ok, Outcome("empty", NoText)} \cup Raises(errors) :
       generate_parameters_done(id, out)
  \/ \E id \in ReqIds, out \in {Ok} \cup Raises(errors) :
       validate_parameters_done(id, out)
  \/ \E id \in ReqIds, out \in {Ok} \cup Fails(errors) :
       execute_tool_done(id, out)

\* retry_delay = min(300, 2 ** request.retry_count), in seconds
retry_delay(retry_count) ==
  IF 2 ^ retry_count < MaxBackoffSeconds THEN 2 ^ retry_count
  ELSE MaxBackoffSeconds

\* a caller builds ActionRequest(..., max_retries=n) itself and runs
\* _execute_single_action on it
_execute_single_action(u, a, hasParams, max_retries) ==
  /\ \E id \in ReqIds : pc[id] = "unused"
  /\ requests' = [requests EXCEPT ![FreshReq] =
                    [ActionRequest(u, a, "normal", hasParams)
                       EXCEPT !.max_retries = max_retries]]
  /\ EnterFrame(FreshReq)
  /\ UNCHANGED <<_pending_requests, _execution_queues, _completed_executions,
                 returned, _processing_active, _queue_processor_task, _execution_stats>>
  /\ UNCHANGED chatVars
  /\ UNCHANGED planVars
  /\ UNCHANGED treeVars
  /\ UNCHANGED svcVars

\* one request with its own retry budget; collaborators may fail
BackoffNext ==
  \/ \E u \in QueueUsers, h \in BOOLEAN, n \in 0..MaxRetriesInput :
       _execute_single_action(u, <<"gmail">>, h, n)
  \/ ExecutionSteps(RetryErrors)
  \/ \E id \in ReqIds : retry_after_backoff(id)

\* callers run actions directly; collaborators may fail transiently
RetryNext ==
  \/ \E r \in RetryInputs :
       execute_action_immediate(r.user_id, r.app_name, r.priority, r.has_parameters)
  \/ ExecutionSteps(RetryErrors)
  \/ \E id \in ReqIds : retry_after_backoff(id)

\* callers queue, run and cancel actions; the background loop dispatches
QueueNext ==
  \/ start_processing
  \/ stop_processing
  \/ \E r \in QueueInputs :
       execute_action_queued(r.user_id, r.app_name, r.priority, r.has_parameters)
  \/ \E r \in QueueInputs :
       execute_action_immediate(r.user_id, r.app_name, r.priority, r.has_parameters)
  \/ _process_queue
  \/ _process_queue_raises
  \/ _process_queue_resumes
  \/ \E id \in ReqIds : TaskStart(id)
  \/ ExecutionSteps(QueueErrors)
  \/ \E id \in ReqIds, u \in QueueUsers : cancel_execution(id, u)

\* ======================================================================
\*              ChatService, WorkflowSession, chat controller
\* ======================================================================

SessionIds == 1..MaxSessions
InteractionIds == 1..MaxInteractions
ConversationIds == 1..MaxConversations

ChatUsers == {<<"alice">>}
ChatApps == {<<"gmail">>}

\* step numbers of the 7-step workflow, times ten (2.5 is 25)
Steps == {10, 20, 25, 30, 40, 50, 60, 70}

ActiveStatuses == {"processing", "waiting_for_auth", "waiting_for_input"}
WaitingStatuses == {"waiting_for_auth", "waiting_for_input"}
TerminalStatuses == {"completed", "failed", "cancelled"}

CancelledMessage == <<"user", "cancelled", "operation">>
ExecutionErrorMessage == <<"unknown", "execution", "error">>

\* class WorkflowSession (status "none": no such object yet)
NoSession ==
  [conversation_id |-> 0, user_id |-> NoText, status |-> "none",
   pending_interaction |-> 0, current_step |-> 10,
   step_results |-> [k \in Steps |-> "none"], selected_app |-> NoText,
   updated_at |-> 0, error |-> NoText]

\* WorkflowSession(conversation_id=..., user_id=..., status=PROCESSING)
WorkflowSession(c, u) ==
  [NoSession EXCEPT !.conversation_id = c, !.user_id = u,
                    !.status = "processing", !.updated_at = now]

\* class ChatConversation (user_id NoText: no such object yet)
NoConversation ==
  [user_id |-> NoText, is_active |-> TRUE, workflow_sessions |-> <<>>]

\* class InteractionData (type "none": no such object yet); `stored` tells
\* whether ChatService.interactions holds it; expires_at -1 is None
NoInteraction ==
  [type |-> "none", app_name |-> NoText, expires_at |-> -1, stored |-> FALSE]

Idle == [at |-> "idle", interaction_id |-> 0]

\* WorkflowSession.add_step_result
add_step_result(session, step_number, status) ==
  [session EXCEPT !.step_results[step_number] = status,
                  !.current_step = step_number,
                  !.updated_at = now]

\* WorkflowSession.mark_completed
mark_completed(session) ==
  [session EXCEPT !.status = "completed", !.updated_at = now]

\* WorkflowSession.mark_failed
mark_failed(session, error) ==
  [session EXCEPT !.status = "failed", !.updated_at = now, !.error = error]

\* WorkflowSession.set_pending_interaction
set_pending_interaction(session, iid, type) ==
  [session EXCEPT !.pending_interaction = iid,
                  !.status = IF type = "oauth" THEN "waiting_for_auth"
                             ELSE "waiting_for_input",
                  !.updated_at = now]

\* WorkflowSession.clear_pending_interaction
clear_pending_interaction(session) ==
  [session EXCEPT !.pending_interaction = 0, !.status = "processing",
                  !.updated_at = now]

\* ChatConversation.get_active_workflow_session: the first session of the
\* conversation, in insertion order, whose status is active (0: None)
get_active_workflow_session(conversation) ==
  LET ss == conversation.workflow_sessions
      idx == {i \in DOMAIN ss : workflow_sessions[ss[i]].status \in ActiveStatuses}
  IN IF idx = {} THEN 0
     ELSE ss[CHOOSE i \in idx : \A j \in idx : i <= j]

\* the loop of handle_interaction_response over self.workflow_sessions:
\* the first stored session whose pending interaction has this id (0: None)
FindSession(iid) ==
  LET found == {sid \in service_sessions :
                  workflow_sessions[sid].pending_interaction = iid}
  IN IF found = {} THEN 0
     ELSE CHOOSE sid \in found : \A t \in found : sid <= t

FreshSession ==
  CHOOSE sid \in SessionIds :
    /\ workflow_sessions[sid].status = "none"
    /\ \A t \in SessionIds : workflow_sessions[t].status = "none" => sid <= t

FreshInteraction ==
  CHOOSE iid \in InteractionIds :
    /\ interactions[iid].type = "none"
    /\ \A t \in InteractionIds : interactions[t].type = "none" => iid <= t

FreshConversation ==
  CHOOSE c \in ConversationIds :
    /\ conversations[c].user_id = NoText
    /\ \A t \in ConversationIds : conversations[t].user_id = NoText => c <= t

ChatInit ==
  /\ conversations = [c \in ConversationIds |-> NoConversation]
  /\ workflow_sessions = [sid \in SessionIds |-> NoSession]
  /\ service_sessions = {}
  /\ interactions = [iid \in InteractionIds |-> NoInteraction]
  /\ in_flight = [sid \in SessionIds |-> Idle]
  /\ credentials = {}
  /\ now = 0

\* the handler working on session sid returns to its caller;
\* handle_interaction_response then runs `del self.interactions[interaction_id]`
\* (a KeyError, if the sweep was faster, is caught by its own except)
HandlerReturns(sid, stored) ==
  LET iid == in_flight[sid].interaction_id
  IN /\ in_flight' = [in_flight EXCEPT ![sid] = Idle]
     /\ interactions' = IF iid = 0 THEN stored
                        ELSE [stored EXCEPT ![iid].stored = FALSE]

\* the steps _continue_workflow_execution runs before it awaits
\* _normalize_parameters, each with the status it is left in
ContinueCalls ==
  <<<<30, "completed">>, <<40, "completed">>, <<50, "completed">>,
    <<60, "processing">>>>

RECURSIVE RunSteps(_, _)
RunSteps(session, calls) ==
  IF calls = <<>> THEN session
  ELSE RunSteps(add_step_result(session, Head(calls)[1], Head(calls)[2]),
                Tail(calls))

\* _continue_workflow_execution up to `await self._normalize_parameters(...)`
ContinueToNormalize(session) == RunSteps(session, ContinueCalls)

\* _execute_workflow_conversationally up to `await self._select_app_with_llm`
StartWorkflow(c, u) ==
  add_step_result(add_step_result(WorkflowSession(c, u), 10, "completed"),
                  20, "processing")

\* send_message(user_id, message, conversation_id); c = 0 is no conversation id
send_message(u, c) ==
  LET known == c # 0 /\ conversations[c].user_id # NoText
      cid == IF known THEN c ELSE FreshConversation
      conversation == IF known THEN conversations[c]
                      ELSE [NoConversation EXCEPT !.user_id = u]
      active == get_active_workflow_session(conversation)
  IN /\ known => conversations[c].user_id = u
     /\ ~known => \E k \in ConversationIds : conversations[k].user_id = NoText
     /\ IF active # 0 /\ workflow_sessions[active].status = "waiting_for_auth"
        THEN \* "I'm still waiting for you to complete the authentication"
             FALSE
        ELSE IF active # 0 /\ workflow_sessions[active].status = "waiting_for_input"
        THEN \* _handle_conversation_continuation
             /\ workflow_sessions' =
                  [workflow_sessions EXCEPT ![active] =
                     ContinueToNormalize(clear_pending_interaction(@))]
             /\ in_flight' = [in_flight EXCEPT ![active] =
                                [at |-> "normalize", interaction_id |-> 0]]
             /\ UNCHANGED <<conversations, service_sessions>>
        ELSE \* _execute_workflow_conversationally
             /\ \E sid \in SessionIds : workflow_sessions[sid].status = "none"
             /\ workflow_sessions' =
                  [workflow_sessions EXCEPT ![FreshSession] = StartWorkflow(cid, u)]
             /\ conversations' =
                  [conversations EXCEPT ![cid] =
                     [conversation EXCEPT !.workflow_sessions =
                                            Append(@, FreshSession)]]
             /\ service_sessions' = service_sessions \cup {FreshSession}
             /\ in_flight' = [in_flight EXCEPT ![FreshSession] =
                                [at |-> "select_app", interaction_id |-> 0]]
     /\ UNCHANGED <<interactions, credentials, now>>
     /\ UNCHANGED execVars
     /\ UNCHANGED planVars
     /\ UNCHANGED treeVars
     /\ UNCHANGED svcVars

\* Step 2 done: _select_app_with_llm returned (it never raises)
select_app_done(sid, app) ==
  /\ in_flight[sid].at = "select_app"
  /\ workflow_sessions' =
       [workflow_sessions EXCEPT ![sid] =
          add_step_result(
            add_step_result([@ EXCEPT !.selected_app = app], 20, "completed"),
            25, "processing")]
  /\ in_flight' = [in_flight EXCEPT ![sid].at = "check_auth"]
  /\ UNCHANGED <<conversations, service_sessions, interactions, credentials, now>>
  /\ UNCHANGED execVars
  /\ UNCHANGED planVars
  /\ UNCHANGED treeVars
  /\ UNCHANGED svcVars

\* what ChatService._check_app_authentication can return for the session:
\* "authenticated", "oauth_url" (not authenticated, with a url) or "no_url"
\* (not authenticated and no url: the auth manager raised, or gave '')
AuthOutcomes(session) ==
  IF <<session.user_id, session.selected_app>> \in credentials
  THEN {"authenticated", "no_url"}
  ELSE {"oauth_url", "no_url"}

\* Step 2.5 done: _check_app_authentication returned
check_authentication_done(sid, outcome) ==
  /\ in_flight[sid].at = "check_auth"
  /\ outcome \in AuthOutcomes(workflow_sessions[sid])
  /\ IF outcome = "oauth_url"
     THEN /\ \E iid \in InteractionIds : interactions[iid].type = "none"
          /\ workflow_sessions' =
               [workflow_sessions EXCEPT ![sid] =
                  add_step_result(
                    set_pending_interaction(@, FreshInteraction, "oauth"),
                    25, "waiting_for_auth")]
          /\ HandlerReturns(sid,
               [interactions EXCEPT ![FreshInteraction] =
                  [type |-> "oauth",
                   app_name |-> workflow_sessions[sid].selected_app,
                   expires_at |-> now + InteractionTTLMinutes,
                   stored |-> TRUE]])
     ELSE /\ workflow_sessions' =
               [workflow_sessions EXCEPT ![sid] =
                  ContinueToNormalize(add_step_result(@, 25, "completed"))]
          /\ in_flight' = [in_flight EXCEPT ![sid].at = "normalize"]
          /\ UNCHANGED interactions
  /\ UNCHANGED <<conversations, service_sessions, credentials, now>>
  /\ UNCHANGED execVars
  /\ UNCHANGED planVars
  /\ UNCHANGED treeVars
  /\ UNCHANGED svcVars

\* Step 6 done: _normalize_parameters returned (it never raises)
normalize_parameters_done(sid, sufficient) ==
  /\ in_flight[sid].at = "normalize"
  /\ IF ~sufficient
     THEN /\ \E iid \in InteractionIds : interactions[iid].type = "none"
          /\ workflow_sessions' =
               [workflow_sessions EXCEPT ![sid] =
                  add_step_result(
                    set_pending_interaction(@, FreshInteraction, "clarification"),
                    60, "waiting_for_input")]
          /\ HandlerReturns(sid,
               [interactions EXCEPT ![FreshInteraction] =
                  [type |-> "clarification", app_name |-> NoText,
                   expires_at |-> -1, stored |-> TRUE]])
     ELSE /\ workflow_sessions' =
               [workflow_sessions EXCEPT ![sid] =
                  add_step_result(add_step_result(@, 60, "completed"),
                                  70, "processing")]
          /\ in_flight' = [in_flight EXCEPT ![sid].at = "execute"]
          /\ UNCHANGED interactions
  /\ UNCHANGED <<conversations, service_sessions, credentials, now>>
  /\ UNCHANGED execVars
  /\ UNCHANGED planVars
  /\ UNCHANGED treeVars
  /\ UNCHANGED svcVars

\* Step 7 done: _execute_action returned (it never raises)
execute_action_done(sid, success) ==
  /\ in_flight[sid].at = "execute"
  /\ workflow_sessions' =
       [workflow_sessions EXCEPT ![sid] =
          IF success
          THEN add_step_result(mark_completed(@), 70, "completed")
          ELSE add_step_result(mark_failed(@, ExecutionErrorMessage), 70, "failed")]
  /\ HandlerReturns(sid, interactions)
  /\ UNCHANGED <<conversations, service_sessions, credentials, now>>
  /\ UNCHANGED execVars
  /\ UNCHANGED planVars
  /\ UNCHANGED treeVars
  /\ UNCHANGED svcVars

ResponseTypes == {"oauth_completed", "parameters_provided", "confirmed", "cancelled"}

\* handle_interaction_response(interaction_id, response_type, response_data)
\* succeeds (every failure is a ValueError that changes nothing)
handle_interaction_response_accepts(iid, response_type) ==
  /\ interactions[iid].stored
  /\ FindSession(iid) # 0
  /\ response_type \in {"oauth_completed", "parameters_provided", "cancelled"}

\* handle_interaction_response(interaction_id, response_type, response_data)
handle_interaction_response(iid, response_type) ==
  /\ handle_interaction_response_accepts(iid, response_type)
  /\ LET sid == FindSession(iid)
     IN IF response_type = "cancelled"
        THEN /\ workflow_sessions' =
                  [workflow_sessions EXCEPT ![sid] =
                     clear_pending_interaction(mark_failed(@, CancelledMessage))]
             /\ interactions' = [interactions EXCEPT ![iid].stored = FALSE]
             /\ UNCHANGED in_flight
        ELSE /\ workflow_sessions' =
                  [workflow_sessions EXCEPT ![sid] =
                     ContinueToNormalize(clear_pending_interaction(@))]
             /\ in_flight' = [in_flight EXCEPT ![sid] =
                                [at |-> "normalize", interaction_id |-> iid]]
             /\ UNCHANGED interactions
  /\ UNCHANGED <<conversations, service_sessions, credentials, now>>
  /\ UNCHANGED execVars
  /\ UNCHANGED planVars
  /\ UNCHANGED treeVars
  /\ UNCHANGED svcVars

\* the interactions the sweep of cleanup_expired_sessions deletes
ExpiredInteractions ==
  {iid \in InteractionIds :
     /\ interactions[iid].stored
     /\ interactions[iid].expires_at # -1
     /\ now > interactions[iid].expires_at}

\* the sessions cleanup_expired_sessions purges
ExpiredSessions ==
  {sid \in service_sessions :
     /\ workflow_sessions[sid].status \in TerminalStatuses
     /\ workflow_sessions[sid].updated_at < now - SessionRetentionMinutes}

\* cleanup_expired_sessions
cleanup_expired_sessions ==
  /\ ExpiredInteractions # {} \/ ExpiredSessions # {}
  /\ interactions' = [iid \in InteractionIds |->
                        IF iid \in ExpiredInteractions
                        THEN [interactions[iid] EXCEPT !.stored = FALSE]
                        ELSE interactions[iid]]
  /\ service_sessions' = service_sessions \ ExpiredSessions
  /\ UNCHANGED <<conversations, workflow_sessions, in_flight, credentials, now>>
  /\ UNCHANGED execVars
  /\ UNCHANGED planVars
  /\ UNCHANGED treeVars
  /\ UNCHANGED svcVars

\* chat_controller.delete_conversation
delete_conversation(c, u) ==
  /\ conversations[c].user_id = u
  /\ LET active == get_active_workflow_session(conversations[c])
     IN /\ conversations[c].is_active \/ active # 0
        /\ conversations' = [conversations EXCEPT ![c].is_active = FALSE]
        /\ workflow_sessions' =
             IF active = 0 THEN workflow_sessions
             ELSE [workflow_sessions EXCEPT ![active].status = "cancelled",
                                            ![active].updated_at = now]
  /\ UNCHANGED <<service_sessions, interactions, in_flight, credentials, now>>
  /\ UNCHANGED execVars
  /\ UNCHANGED planVars
  /\ UNCHANGED treeVars
  /\ UNCHANGED svcVars

\* the credential store changes: an account is connected or disconnected
credential_change(u, a) ==
  /\ credentials' = IF <<u, a>> \in credentials
                    THEN credentials \ {<<u, a>>}
                    ELSE credentials \cup {<<u, a>>}
  /\ UNCHANGED <<conversations, workflow_sessions, service_sessions,
                 interactions, in_flight, now>>
  /\ UNCHANGED execVars
  /\ UNCHANGED planVars
  /\ UNCHANGED treeVars
  /\ UNCHANGED svcVars

\* instants at which a comparison of the cleanup changes its outcome
Deadlines ==
  {interactions[iid].expires_at + 1 :
     iid \in {k \in InteractionIds : interactions[k].stored /\
                                     interactions[k].expires_at # -1}}
  \cup
  {workflow_sessions[sid].updated_at + SessionRetentionMinutes + 1 :
     sid \in {k \in service_sessions :
                workflow_sessions[k].status \in TerminalStatuses}}

\* time passes, up to the next such instant
Tick ==
  /\ \E t \in Deadlines : t > now /\ t <= MaxClock /\ now' = t
  /\ UNCHANGED <<conversations, workflow_sessions, service_sessions,
                 interactions, in_flight, credentials>>
  /\ UNCHANGED execVars
  /\ UNCHANGED planVars
  /\ UNCHANGED treeVars
  /\ UNCHANGED svcVars

ChatNext ==
  \/ \E u \in ChatUsers, c \in {0} \cup ConversationIds : send_message(u, c)
  \/ \E sid \in SessionIds, app \in ChatApps : select_app_done(sid, app)
  \/ \E sid \in SessionIds, o \in {"authenticated", "oauth_url", "no_url"} :
       check_authentication_done(sid, o)
  \/ \E sid \in SessionIds, ok \in BOOLEAN : normalize_parameters_done(sid, ok)
  \/ \E sid \in SessionIds, ok \in BOOLEAN : execute_action_done(sid, ok)
  \/ \E iid \in InteractionIds, rt \in ResponseTypes :
       handle_interaction_response(iid, rt)
  \/ cleanup_expired_sessions
  \/ \E c \in ConversationIds, u \in ChatUsers : delete_conversation(c, u)
  \/ \E u \in ChatUsers, a \in ChatApps : credential_change(u, a)
  \/ Tick

\* ======================================================================
\*          ComposioActionExecutor.execute_workflow (multi-step plans)
\* ======================================================================

PlanUsers == {<<"alice">>}

UnknownApp == <<"unknown">>

\* one action dict of _parse_workflow_actions
Action(app, name, deps) ==
  [app_name |-> app, action_name |-> name, depends_on |-> deps]

\* f"{action['app_name']}.{action['action_name']}"
action_key(action) == action.app_name \o <<action.action_name>>

\* the email-to-social pattern: the second action depends on the first
EmailToSocial ==
  <<Action(<<"gmail">>, "fetch_emails", {}),
    Action(<<"twitter">>, "create_post", {<<"gmail", "fetch_emails">>})>>

\* the communication pattern: one action
TeamNotification == <<Action(<<"slack">>, "send_message", {})>>

\* no pattern and no keyword matched: the generic action
GenericWorkflow == <<Action(UnknownApp, "generic_action", {})>>

\* what _parse_workflow_actions returns for the descriptions of the scenarios
ParsedWorkflows == {EmailToSocial, TeamNotification, GenericWorkflow}

PlanApps == {<<"gmail">>, <<"twitter">>, <<"slack">>}

\* texts a collaborator of a plan's step can fail with
PlanErrors == {<<"invalid", "request">>, <<"rate limit">>,
               <<"authentication", "failed">>}

MinOf(S) == CHOOSE i \in S : \A j \in S : i <= j

\* the while loop of _plan_workflow_execution: one action is appended per
\* iteration; `terminates` is FALSE when an iteration appends nothing
RECURSIVE PlanOrderLoop(_, _, _)
PlanOrderLoop(actions, order, completed) ==
  IF Len(order) >= Len(actions)
  THEN [terminates |-> TRUE, order |-> order]
  ELSE LET remaining == {i \in DOMAIN actions :
                           action_key(actions[i]) \notin completed}
           can_execute == {i \in remaining :
                             actions[i].depends_on \subseteq completed}
           ready_actions == IF can_execute # {} THEN can_execute ELSE remaining
       IN IF ready_actions = {}
          THEN [terminates |-> FALSE, order |-> order]
          ELSE LET k == action_key(actions[MinOf(ready_actions)])
               IN PlanOrderLoop(actions, Append(order, k), completed \cup {k})

\* an ordering that takes the actions as listed, whatever they depend on
execution_order_as_listed(actions) ==
  [terminates |-> TRUE,
   order |-> [i \in DOMAIN actions |-> action_key(actions[i])]]

\* plan['execution_order']
execution_order(actions) == PlanOrderLoop(actions, <<>>, {})

\* plan['actions'][action_key]: a dict comprehension, the last entry wins
ActionOf(actions, key) ==
  actions[CHOOSE i \in DOMAIN actions :
            /\ action_key(actions[i]) = key
            /\ \A j \in DOMAIN actions : action_key(actions[j]) = key => j <= i]

\* the frame of execute_workflow: plan and workflow_result
NoWorkflow ==
  [at |-> "none", user_id |-> NoText, actions |-> <<>>,
   execution_order |-> <<>>, to_check |-> {}, auth_checks |-> {},
   pos |-> 0, request |-> 0, status |-> "none", actions_completed |-> 0,
   results |-> <<>>, errors |-> <<>>, workflow_context |-> {}]

\* f"Missing authentication for apps: {missing_auth}"
MissingAuthMessage == <<"missing", "authentication", "for", "apps">>

\* f"Action {action_key} failed: {action_result.error}"
ActionFailedMessage(key, error) == <<"action">> \o key \o <<"failed">> \o error

\* missing_auth of _execute_workflow_plan
missing_auth(w) == {c[1] : c \in {d \in w.auth_checks : ~d[2]}}

\* a loop that breaks on every failed action
StopsOnAnyError(error) == error # NoText

\* `break` of the loop: 'authentication' or 'unauthorized' in the error
StopsOnError(error) ==
  /\ error # NoText
  /\ \/ InSeq(error, "authentication")
     \/ InSeq(error, "unauthorized")

\* `continue` of the loop: 'rate limit' or '429' in the error
ContinuesOnError(error) ==
  /\ error # NoText
  /\ ~StopsOnError(error)
  /\ \/ InSeq(error, "rate limit")
     \/ InSeq(error, "429")

\* the next action of the loop, from position i on, that is not skipped as
\* 'unknown' (0: the loop is over)
NextStep(w, i) ==
  LET idx == {j \in i..Len(w.execution_order) :
                ActionOf(w.actions, w.execution_order[j]).app_name # UnknownApp}
  IN IF idx = {} THEN 0 ELSE MinOf(idx)

\* the loop calls execute_action(..., execute_immediately=True) for step j:
\* the request is created and runs up to its credential check
StartStep(w, j) ==
  /\ \E id \in ReqIds : pc[id] = "unused"
  /\ requests' =
       [requests EXCEPT ![FreshReq] =
          ActionRequest(w.user_id,
                        ActionOf(w.actions, w.execution_order[j]).app_name,
                        "normal", FALSE)]
  /\ EnterFrame(FreshReq)
  /\ workflow' = [w EXCEPT !.at = "executing", !.pos = j, !.request = FreshReq]
  /\ UNCHANGED <<_pending_requests, _execution_queues, _completed_executions,
                 returned, _processing_active, _queue_processor_task, _execution_stats>>

\* an overall status without the 'partially_completed' case
FinishPlanAllOrNothing(w) ==
  /\ workflow' =
       [w EXCEPT !.at = "done", !.request = 0,
                 !.status =
                    IF w.actions_completed = Len(w.execution_order)
                    THEN "completed"
                    ELSE "failed"]
  /\ UNCHANGED execVars

\* "Determine overall status", and the workflow result is returned
FinishPlan(w) ==
  /\ workflow' =
       [w EXCEPT !.at = "done", !.request = 0,
                 !.status =
                    IF w.actions_completed = Len(w.execution_order)
                    THEN "completed"
                    ELSE IF w.actions_completed > 0 THEN "partially_completed"
                    ELSE "failed"]
  /\ UNCHANGED execVars

\* the for loop of _execute_workflow_plan goes on from position i
Proceed(w, i) ==
  IF NextStep(w, i) # 0 THEN StartStep(w, NextStep(w, i)) ELSE FinishPlan(w)

\* _execute_workflow_plan starts: "Check authentication first"
EnterPlan(w) ==
  IF missing_auth(w) # {}
  THEN /\ workflow' = [w EXCEPT !.at = "done", !.status = "failed",
                                !.errors = Append(@, MissingAuthMessage)]
       /\ UNCHANGED execVars
  ELSE Proceed(w, 1)

\* execute_workflow(user_id, workflow_description): the description is
\* parsed, the order is planned, and the first credential check is awaited
execute_workflow(u, actions) ==
  /\ workflow.at = "none"
  /\ LET plan == execution_order(actions)
         required_apps == {actions[i].app_name : i \in DOMAIN actions}
                            \ {UnknownApp}
         w == [NoWorkflow EXCEPT !.user_id = u, !.actions = actions,
                                 !.execution_order = plan.order,
                                 !.to_check = required_apps,
                                 !.status = "running"]
     IN /\ plan.terminates
        /\ IF required_apps = {}
           THEN EnterPlan(w)
           ELSE /\ workflow' = [w EXCEPT !.at = "planning"]
                /\ UNCHANGED execVars
  /\ UNCHANGED chatVars
  /\ UNCHANGED treeVars
  /\ UNCHANGED svcVars

\* one `await self._check_app_authentication(user_id, app)` of the planning
\* loop returns; after the last one the plan is executed
plan_auth_check_done(app, authenticated) ==
  /\ workflow.at = "planning"
  /\ app \in workflow.to_check
  /\ LET w == [workflow EXCEPT !.to_check = @ \ {app},
                               !.auth_checks = @ \cup {<<app, authenticated>>}]
     IN IF w.to_check = {}
        THEN EnterPlan(w)
        ELSE /\ workflow' = w
             /\ UNCHANGED execVars
  /\ UNCHANGED chatVars
  /\ UNCHANGED treeVars
  /\ UNCHANGED svcVars

\* context_key = f"{action_key}_result"
context_key(key) == key \o <<"result">>

\* `await self.execute_action(...)` of the loop returns its ActionResult:
\* the result is recorded and the loop stops or goes on to the next action
workflow_step_returns ==
  /\ workflow.at = "executing"
  /\ pc[workflow.request] = "done"
  /\ LET action_result == returned[workflow.request]
         key == workflow.execution_order[workflow.pos]
         w1 == [workflow EXCEPT !.results =
                  Append(@, [key |-> key, status |-> action_result.status,
                             error |-> action_result.error])]
         w2 == [w1 EXCEPT !.errors =
                  Append(@, ActionFailedMessage(key, action_result.error))]
         w3 == [w1 EXCEPT !.actions_completed = @ + 1,
                          !.workflow_context =
                             IF action_result.data = "some"
                             THEN @ \cup {context_key(key)} ELSE @]
     IN IF action_result.status = "completed"
        THEN Proceed(w3, workflow.pos + 1)
        ELSE IF StopsOnError(action_result.error)
        THEN FinishPlan(w2)
        ELSE Proceed(w2, workflow.pos + 1)
  /\ UNCHANGED chatVars
  /\ UNCHANGED treeVars
  /\ UNCHANGED svcVars

\* a caller runs one workflow; the collaborators of its steps may fail
PlanNext ==
  \/ \E u \in PlanUsers, actions \in ParsedWorkflows : execute_workflow(u, actions)
  \/ \E app \in PlanApps, au \in BOOLEAN : plan_auth_check_done(app, au)
  \/ ExecutionSteps(PlanErrors)
  \/ \E id \in ReqIds : execute_tool_done(id, OkEmpty)
  \/ \E id \in ReqIds : retry_after_backoff(id)
  \/ workflow_step_returns

\* no workflow is run in the other scenarios
PlanIdle == workflow = NoWorkflow

\* ======================================================================
\*            ComposioFunctionExecutor.execute_task_tree (task trees)
\* ======================================================================

\* values a node returns as 'data': None, a (non-empty) string, or a list
NoneData == [t |-> "none", items |-> <<>>]

StrData == [t |-> "str", items |-> <<>>]

ListData(items) == [t |-> "list", items |-> items]

\* task nodes: a primitive value, a {'function': ...} leaf, a
\* {'parallel': [...]} node and a {'sequential': [...]} node
Value(d) == [kind |-> "value", data |-> d, tasks |-> <<>>]

Function == [kind |-> "function", data |-> NoneData, tasks |-> <<>>]

Parallel(tasks) == [kind |-> "parallel", data |-> NoneData, tasks |-> tasks]

Sequential(tasks) == [kind |-> "sequential", data |-> NoneData, tasks |-> tasks]

\* sequences over S of length at most n
SeqUpTo(S, n) == UNION {[1..k -> S] : k \in 0..n}

\* the task trees of the scenarios: two levels of nodes over the leaves
TreeLeaves == {Value(StrData), Value(NoneData), Function}

TreeLevel1 ==
  {Parallel(ts) : ts \in SeqUpTo(TreeLeaves, MaxNestedChildren)}
    \cup {Sequential(ts) : ts \in SeqUpTo(TreeLeaves, MaxNestedChildren)}

TaskTrees ==
  {Parallel(ts) : ts \in SeqUpTo(TreeLeaves \cup TreeLevel1, MaxChildren)}
    \cup {Sequential(ts) : ts \in SeqUpTo(TreeLeaves \cup TreeLevel1, MaxChildren)}

\* the leaf calls self.execute_function(function_name=..., parameters=...,
\* user_id=..., execution_context=...) without the required app_name:
\* "execute_function() missing 1 required positional argument: 'app_name'"
MissingArgumentMessage ==
  <<"execute_function()", "missing", "1", "required", "positional",
    "argument:", "'app_name'">>

\* errors of dict.update(data) for data that is no mapping and no list of
\* pairs
UpdateErrorMessage ==
  <<"dictionary", "update", "sequence", "element">>

\* bool(data)
Truthy(d) == d.t = "str" \/ (d.t = "list" /\ d.items # <<>>)

\* an element dict.update accepts as a (key, value) pair: a list of two
\* items whose first is hashable
IsPair(e) ==
  /\ e.t = "list"
  /\ Len(e.items) = 2
  /\ e.items[1].t # "list"

\* context.update(data): the pairs in front of the first element that is
\* no pair are stored, then the call raises
FirstBad(d) ==
  IF d.t # "list" THEN 1
  ELSE LET bad == {i \in DOMAIN d.items : ~IsPair(d.items[i])}
       IN IF bad = {} THEN 0 ELSE MinOf(bad)

\* the dict after context[key] = value
Store(context, key, value) ==
  {kv \in context : kv.key # key} \cup {[key |-> key, value |-> value]}

RECURSIVE StorePairs(_, _, _)
StorePairs(context, items, n) ==
  IF n = 0 THEN context
  ELSE Store(StorePairs(context, items, n - 1),
             items[n].items[1], items[n].items[2])

\* an aggregate that is satisfied by one successful child
any_success(results) == \E i \in DOMAIN results : results[i].success

\* all(r['success'] for r in results): every gathered result is a dict,
\* since _execute_task_node catches every Exception of a child
all_success(results) == \A i \in DOMAIN results : results[i].success

\* the result dict of a node, with the context object as the call left it;
\* `awaited`: the call suspended (in asyncio.gather)
NodeResult(success, data, error, context, awaited) ==
  [success |-> success, data |-> data, error |-> error, context |-> context,
   awaited |-> awaited]

\* _execute_task_node(node, user_id, execution_id, context)
RECURSIVE EvalNode(_, _)
RECURSIVE SequentialLoop(_, _, _, _)
EvalNode(node, context) ==
  CASE node.kind = "function" ->
         \* the TypeError of the call is caught by the method's except
         NodeResult(FALSE, NoneData, MissingArgumentMessage, context, FALSE)
    [] node.kind = "value" ->
         NodeResult(TRUE, node.data, NoText, context, FALSE)
    [] node.kind = "parallel" ->
         \* each child runs on context.copy(); results are only combined;
         \* the await of gather suspends unless there is no child
         LET results == [i \in DOMAIN node.tasks |->
                           EvalNode(node.tasks[i], context)]
         IN NodeResult(all_success(results),
                       ListData([i \in DOMAIN results |-> results[i].data]),
                       NoText, context, node.tasks # <<>>)
    [] OTHER -> SequentialLoop(node.tasks, 1, <<>>, context)

\* the for loop of the 'sequential' branch, from child i on
SequentialLoop(tasks, i, results, context) ==
  LET awaited == \E k \in DOMAIN results : results[k].awaited
      combined(rs, ctx) ==
        NodeResult(all_success(rs),
                   ListData([k \in DOMAIN rs |-> rs[k].data]), NoText, ctx,
                   \E k \in DOMAIN rs : rs[k].awaited)
  IN IF i > Len(tasks) THEN combined(results, context)
     ELSE LET result == EvalNode(tasks[i], context)
              rs == Append(results, result)
          IN IF ~result.success THEN combined(rs, result.context)
             ELSE IF ~Truthy(result.data)
             THEN SequentialLoop(tasks, i + 1, rs, result.context)
             ELSE IF FirstBad(result.data) = 0
             THEN SequentialLoop(tasks, i + 1, rs,
                                 StorePairs(result.context, result.data.items,
                                            Len(result.data.items)))
             ELSE \* context.update raises; the method's except returns
                  NodeResult(FALSE, NoneData, UpdateErrorMessage,
                             IF result.data.t = "list"
                             THEN StorePairs(result.context, result.data.items,
                                             FirstBad(result.data) - 1)
                             ELSE result.context,
                             awaited \/ result.awaited)

\* the frame of execute_task_tree and the one execution record it makes:
\* `record` is the record's status, `active` whether _active_executions
\* holds it, `history` the status of every entry of _execution_history
\* (each entry is that same record object), `final_result` the success of
\* the record's final_result
NoTaskExecution ==
  [at |-> "none", task_tree |-> Value(NoneData), record |-> "none",
   active |-> FALSE, history |-> <<>>, final_result |-> FALSE,
   success |-> FALSE, data |-> NoneData, context |-> {}]

\* execute_task_tree(task_tree, user_id): awaits the tool validation
execute_task_tree(task_tree) ==
  /\ task_execution.at = "none"
  /\ task_execution' = [task_execution EXCEPT !.at = "validating",
                                              !.task_tree = task_tree]
  /\ UNCHANGED execVars
  /\ UNCHANGED chatVars
  /\ UNCHANGED planVars
  /\ UNCHANGED svcVars

\* the record is updated with the outcome and appended to the history;
\* `del self._active_executions[execution_id]` then raises KeyError if the
\* record was cancelled meanwhile, and the except branch returns a failure
FinishTaskTree(te, result) ==
  LET status == IF result.success THEN "completed" ELSE "failed"
      updated == [k \in DOMAIN te.history |-> status]
  IN task_execution' =
       [te EXCEPT !.at = "done", !.record = status, !.active = FALSE,
                  !.history = Append(updated, status),
                  !.final_result = result.success,
                  !.success = IF te.active THEN result.success ELSE FALSE,
                  !.data = IF te.active THEN result.data ELSE NoneData,
                  !.context = result.context]

\* get_tools_for_task_tree returned: a tree that is not executable raises
\* ValueError (no record yet); otherwise the record is registered and the
\* tree is executed, up to its first asyncio.gather if it has one
task_tools_done(is_executable) ==
  /\ task_execution.at = "validating"
  /\ LET result == EvalNode(task_execution.task_tree, {})
         registered == [task_execution EXCEPT !.record = "running",
                                              !.active = TRUE]
     IN IF ~is_executable
        THEN task_execution' = [task_execution EXCEPT !.at = "done"]
        ELSE IF result.awaited
        THEN task_execution' = [registered EXCEPT !.at = "running"]
        ELSE FinishTaskTree(registered, result)
  /\ UNCHANGED execVars
  /\ UNCHANGED chatVars
  /\ UNCHANGED planVars
  /\ UNCHANGED svcVars

\* the gathered children have finished: the rest of the tree is executed
task_tree_finished ==
  /\ task_execution.at = "running"
  /\ FinishTaskTree(task_execution, EvalNode(task_execution.task_tree, {}))
  /\ UNCHANGED execVars
  /\ UNCHANGED chatVars
  /\ UNCHANGED planVars
  /\ UNCHANGED svcVars

\* ComposioFunctionExecutor.cancel_execution(execution_id, user_id): an
\* active execution of the caller is marked cancelled and moved to the
\* history; otherwise nothing changes
cancel_task_execution(is_owner) ==
  /\ task_execution.at \in {"validating", "running", "done"}
  /\ task_execution' =
       IF task_execution.active /\ is_owner
       THEN [task_execution EXCEPT !.record = "cancelled", !.active = FALSE,
                                   !.history = Append(@, "cancelled")]
       ELSE task_execution
  /\ UNCHANGED execVars
  /\ UNCHANGED chatVars
  /\ UNCHANGED planVars
  /\ UNCHANGED svcVars

\* a caller executes one task tree
TreeNext ==
  \/ /\ task_execution.at = "none"
     /\ \E task_tree \in TaskTrees : execute_task_tree(task_tree)
  \/ \E ok \in BOOLEAN : task_tools_done(ok)
  \/ task_tree_finished
  \/ \E is_owner \in BOOLEAN : cancel_task_execution(is_owner)

\* no task tree is executed in the other scenarios
TreeIdle == task_execution = NoTaskExecution

\* ----------------------------------------------------------------------
\* _plan_workflow_execution on arbitrary action lists
\* ----------------------------------------------------------------------

\* the action keys the lists are built from
OrderKeys ==
  {<<"gmail", "fetch_emails">>, <<"twitter", "create_post">>,
   <<"slack", "send_message">>}

\* action dicts with every depends_on list over these keys; a key that is
\* not in the list of actions is a reference that cannot be resolved
OrderActions ==
  {Action(<<k[1]>>, k[2], deps) : k \in OrderKeys, deps \in SUBSET OrderKeys}

\* the `actions` argument
ActionLists == SeqUpTo(OrderActions, MaxPlanActions)

\* _plan_workflow_execution is entered and runs its ordering loop, which
\* either leaves the while statement with an order or never leaves it
_plan_workflow_execution(u, actions) ==
  /\ workflow.at = "none"
  /\ LET plan == execution_order(actions)
     IN workflow' = [NoWorkflow EXCEPT
                       !.at = IF plan.terminates THEN "ordered" ELSE "ordering",
                       !.user_id = u, !.actions = actions,
                       !.execution_order = plan.order]
  /\ UNCHANGED execVars
  /\ UNCHANGED chatVars
  /\ UNCHANGED treeVars
  /\ UNCHANGED svcVars

\* the plan is returned to the caller
plan_returned ==
  /\ workflow.at = "ordered"
  /\ workflow' = NoWorkflow
  /\ UNCHANGED execVars
  /\ UNCHANGED chatVars
  /\ UNCHANGED treeVars
  /\ UNCHANGED svcVars

\* plans are computed for one list of actions after the other: the caller
\* makes its next call when the previous plan was returned
OrderNext ==
  \/ /\ workflow.at = "none"
     /\ \E u \in PlanUsers, actions \in ActionLists :
          _plan_workflow_execution(u, actions)
  \/ plan_returned

\* ======================================================================
\*                       ComposioWorkflowService
\* ======================================================================

\* apps step 2 can select
ServiceApps == {<<"gmail">>, <<"slack">>}

\* error texts of the early returns of execute_workflow
FetchAppsError == <<"failed", "to", "fetch", "composio", "apps">>
SelectActionError == <<"llm", "failed", "to", "select", "an", "action">>

\* WorkflowStep(step_number, success, error_message): step numbers times
\* ten; `fallback` tells that error_message reports a fallback
WorkflowStep(step_number, success, fallback) ==
  [step_number |-> step_number, success |-> success, fallback |-> fallback]

\* WorkflowResult(query, success=False, steps_completed=0) and the place
\* execute_workflow stands at ("none": not called)
NoWorkflowResult ==
  [at |-> "none", success |-> FALSE, steps_completed |-> 0,
   selected_app |-> NoText, auth_verified |-> FALSE, error |-> NoText,
   steps |-> <<>>]

\* workflow_result.steps.append(step), then on to the next await
StepRecorded(step, completed, next) ==
  [workflow_result EXCEPT !.steps = Append(@, step),
                          !.steps_completed = completed,
                          !.at = next]

\* execute_workflow(natural_query) up to `await self._step_1_fetch_apps()`
service_execute_workflow ==
  /\ workflow_result.at = "none"
  /\ workflow_result' = [NoWorkflowResult EXCEPT !.at = "step_1"]
  /\ UNCHANGED <<execVars, chatVars, planVars, treeVars>>

\* _step_1_fetch_apps returned: apps, the fallback apps after a timeout,
\* or an unsuccessful step, on which execute_workflow returns
_step_1_fetch_apps(outcome) ==
  /\ workflow_result.at = "step_1"
  /\ workflow_result' =
       IF outcome = "error"
       THEN [workflow_result EXCEPT
               !.steps = Append(@, WorkflowStep(10, FALSE, FALSE)),
               !.error = FetchAppsError, !.at = "returned"]
       ELSE StepRecorded(WorkflowStep(10, TRUE, outcome = "timeout"),
                         10, "step_2")
  /\ UNCHANGED <<execVars, chatVars, planVars, treeVars>>

\* _step_2_select_app returned (always successful, GMAIL as fallback)
_step_2_select_app(app, fallback) ==
  /\ workflow_result.at = "step_2"
  /\ fallback => app = <<"gmail">>
  /\ workflow_result' =
       [StepRecorded(WorkflowStep(20, TRUE, fallback), 20, "step_2_5")
          EXCEPT !.selected_app = app]
  /\ UNCHANGED <<execVars, chatVars, planVars, treeVars>>

\* _step_2_5_authenticate_app returned; execute_workflow stores its success
\* in auth_verified and goes on to step 3
_step_2_5_authenticate_app(is_authenticated) ==
  /\ workflow_result.at = "step_2_5"
  /\ workflow_result' =
       [StepRecorded(WorkflowStep(25, is_authenticated, FALSE), 25, "step_3")
          EXCEPT !.auth_verified = is_authenticated]
  /\ UNCHANGED <<execVars, chatVars, planVars, treeVars>>

\* _step_3_fetch_actions returned (always successful: fallback actions)
_step_3_fetch_actions(fallback) ==
  /\ workflow_result.at = "step_3"
  /\ workflow_result' =
       StepRecorded(WorkflowStep(30, TRUE, fallback), 30, "step_4")
  /\ UNCHANGED <<execVars, chatVars, planVars, treeVars>>

\* _step_4_select_action returned; execute_workflow returns if it failed
_step_4_select_action(success) ==
  /\ workflow_result.at = "step_4"
  /\ workflow_result' =
       IF ~success
       THEN [workflow_result EXCEPT
               !.steps = Append(@, WorkflowStep(40, FALSE, FALSE)),
               !.error = SelectActionError, !.at = "returned"]
       ELSE StepRecorded(WorkflowStep(40, TRUE, FALSE), 40, "step_5")
  /\ UNCHANGED <<execVars, chatVars, planVars, treeVars>>

\* _step_5_fetch_schema returned (always successful)
_step_5_fetch_schema(fallback) ==
  /\ workflow_result.at = "step_5"
  /\ workflow_result' =
       StepRecorded(WorkflowStep(50, TRUE, fallback), 50, "step_6")
  /\ UNCHANGED <<execVars, chatVars, planVars, treeVars>>

\* _step_6_normalize_parameters returned (always successful)
_step_6_normalize_parameters(fallback) ==
  /\ workflow_result.at = "step_6"
  /\ workflow_result' =
       StepRecorded(WorkflowStep(60, TRUE, fallback), 60, "step_7")
  /\ UNCHANGED <<execVars, chatVars, planVars, treeVars>>

\* _step_7_execute_action returned: the workflow is marked successful
\* when all steps were run, and returned
_step_7_execute_action(success) ==
  /\ workflow_result.at = "step_7"
  /\ workflow_result' =
       [StepRecorded(WorkflowStep(70, success, FALSE), 70, "returned")
          EXCEPT !.success = TRUE]
  /\ UNCHANGED <<execVars, chatVars, planVars, treeVars>>

\* one caller runs one workflow
ServiceNext ==
  \/ service_execute_workflow
  \/ \E o \in {"ok", "timeout", "error"} : _step_1_fetch_apps(o)
  \/ \E app \in ServiceApps, fb \in BOOLEAN : _step_2_select_app(app, fb)
  \/ \E au \in BOOLEAN : _step_2_5_authenticate_app(au)
  \/ \E fb \in BOOLEAN : _step_3_fetch_actions(fb)
  \/ \E ok \in BOOLEAN : _step_4_select_action(ok)
  \/ \E fb \in BOOLEAN : _step_5_fetch_schema(fb)
  \/ \E fb \in BOOLEAN : _step_6_normalize_parameters(fb)
  \/ \E ok \in BOOLEAN : _step_7_execute_action(ok)

\* the service is not used in the other scenarios
ServiceIdle == workflow_result = NoWorkflowResult

\* the executor is not used by the chat scenarios
ExecIdle == ExecInit({})

\* the chat service is not used by the executor scenarios
ChatIdle == ChatInit

RetryInit ==
  /\ ExecInit(1..MaxRetryReq)
  /\ ChatIdle
  /\ PlanIdle
  /\ TreeIdle
  /\ ServiceIdle

RetrySpec == RetryInit /\ [][RetryNext]_vars

BackoffInit ==
  /\ ExecInit(1..1)
  /\ ChatIdle
  /\ PlanIdle
  /\ TreeIdle
  /\ ServiceIdle

BackoffSpec == BackoffInit /\ [][BackoffNext]_vars

QueueInit ==
  /\ ExecInit(1..MaxQueueReq)
  /\ ChatIdle
  /\ PlanIdle
  /\ TreeIdle
  /\ ServiceIdle

QueueSpec == QueueInit /\ [][QueueNext]_vars

\* the event loop resumes the queue task when its sleep is over, and the
\* try body of an iteration does not raise for ever
QueueLiveSpec ==
  /\ QueueInit
  /\ [][QueueNext]_vars
  /\ WF_vars(_process_queue_resumes)
  /\ SF_vars(_process_queue)

ChatSpecInit ==
  /\ ExecIdle
  /\ ChatInit
  /\ PlanIdle
  /\ TreeIdle
  /\ ServiceIdle

PlanInit ==
  /\ ExecInit(1..MaxPlanReq)
  /\ ChatIdle
  /\ PlanIdle
  /\ TreeIdle
  /\ ServiceIdle

PlanSpec == PlanInit /\ [][PlanNext]_vars

TreeInit ==
  /\ ExecIdle
  /\ ChatIdle
  /\ PlanIdle
  /\ TreeIdle
  /\ ServiceIdle

TreeSpec == TreeInit /\ [][TreeNext]_vars

OrderInit ==
  /\ ExecIdle
  /\ ChatIdle
  /\ PlanIdle
  /\ TreeIdle
  /\ ServiceIdle

OrderSpec == OrderInit /\ [][OrderNext]_vars

ServiceInit ==
  /\ ExecIdle
  /\ ChatIdle
  /\ PlanIdle
  /\ TreeIdle
  /\ ServiceIdle

ServiceSpec == ServiceInit /\ [][ServiceNext]_vars

ChatSpec == ChatSpecInit /\ [][ChatNext]_vars

\* ======================================================================
\*                     Claims about the executor
\* ======================================================================

AttemptPcs == {"auth", "params", "validate", "exec"}

\* the request's current attempt ends in failure in this step
AttemptFails(id) ==
  /\ pc[id] \in AttemptPcs
  /\ Top(frames[id]).status = "running"
  /\ Top(frames'[id]).status \in {"failed", "retrying"}

PriorityRank(p) ==
  CASE p = "urgent" -> 4 [] p = "high" -> 3 [] p = "normal" -> 2 [] OTHER -> 1

\* C1: whenever the queue loop dispatches a request, it is the head of the
\* highest-priority non-empty lane (URGENT > HIGH > NORMAL > LOW).
C1_DispatchesHighestLane ==
  [][\A id \in ReqIds :
       (pc[id] = "pending" /\ pc'[id] = "dispatched") =>
         /\ id = Head(_execution_queues[requests[id].priority])
         /\ \A p \in Priorities :
              _execution_queues[p] # <<>> =>
                PriorityRank(p) <= PriorityRank(requests[id].priority)]_vars

\* C2: an attempt that fails with a transient-classified error, raised or
\* returned as an unsuccessful result, while retry budget remains, is
\* followed by another attempt with retry_count incremented by one.
C2_TransientFailureRetried ==
  [][\A id \in ReqIds :
       (/\ AttemptFails(id)
        /\ _is_retryable_error(Top(frames'[id]).error)
        /\ requests[id].retry_count < requests[id].max_retries) =>
         /\ pc'[id] = "backoff"
         /\ requests'[id].retry_count = requests[id].retry_count + 1]_vars

\* C3: a request whose attempts all fail transiently is attempted
\* max_retries + 1 times and ends with a FAILED result whose retry_count is
\* max_retries; retry_count never exceeds max_retries.
C3_ExhaustedRetriesResult ==
  \A id \in ReqIds :
    /\ requests[id].retry_count <= requests[id].max_retries
    /\ (/\ pc[id] = "done"
        /\ \A i \in DOMAIN frames[id] :
             /\ _is_retryable_error(frames[id][i].error)
             /\ frames[id][i].error #
                  AuthErrorMessage(requests[id].user_id, requests[id].app_name)) =>
         /\ Len(frames[id]) = requests[id].max_retries + 1
         /\ returned[id].status = "failed"
         /\ returned[id].retry_count = requests[id].max_retries

\* C4: a failed credential check is never retried: the attempt ends the
\* request with a FAILED result carrying the authorization error, for every
\* owner id and app name.
C4_AuthFailureNeverRetried ==
  [][\A id \in ReqIds :
       (/\ AttemptFails(id)
        /\ pc[id] = "auth") =>
         /\ pc'[id] = "done"
         /\ requests'[id].retry_count = requests[id].retry_count
         /\ returned'[id].status = "failed"
         /\ returned'[id].error =
              AuthErrorMessage(requests[id].user_id, requests[id].app_name)]_vars

\* C5: cancel_execution by a user who does not own the request returns
\* false and changes nothing, for a pending and for a running request.
C5_NonOwnerCancelRejected ==
  [][\A id \in ReqIds, u \in QueueUsers :
       (/\ pc[id] # "unused"
        /\ u # requests[id].user_id
        /\ cancel_execution(id, u)) =>
         /\ ~cancel_execution_returns(id, u)
         /\ UNCHANGED vars]_vars

\* C16: cancel_execution by the owner on a pending request returns true,
\* removes the id from its lane and from the pending map and records a
\* CANCELLED result; the request is never dispatched or executed afterwards.
C16_OwnerCancelsPending ==
  [][\A id \in ReqIds :
       /\ \A u \in QueueUsers :
            (/\ id \in _pending_requests
             /\ u = requests[id].user_id
             /\ cancel_execution(id, u)) =>
              /\ cancel_execution_returns(id, u)
              /\ id \notin _pending_requests'
              /\ \A p \in Priorities : ~InSeq(_execution_queues'[p], id)
              /\ _completed_executions'[id].status = "cancelled"
              /\ pc'[id] = "cancelled"
       /\ pc[id] = "cancelled" =>
            /\ pc'[id] = "cancelled"
            /\ frames'[id] = <<>>
            /\ id \notin _running_executions'
            /\ id \notin _pending_requests'
            /\ \A p \in Priorities : ~InSeq(_execution_queues'[p], id)
            /\ _completed_executions'[id].status = "cancelled"]_vars

\* C16 witness: a request was cancelled while pending by its owner, and the
\* queue loop has dispatched another request since
C16_Witness ==
  \E id \in ReqIds, j \in ReqIds :
    /\ pc[id] = "cancelled"
    /\ _completed_executions[id].cancelled_by = requests[id].user_id
    /\ _processing_active
    /\ pc[j] = "done"
    /\ \A p \in Priorities : _execution_queues[p] = <<>>

\* C17: once the owner's cancellation flag is set on a running execution,
\* the execution starts no further external call and does not finish with
\* status COMPLETED.
C17_CancelFlagObserved ==
  [][\A id \in ReqIds :
       (/\ pc[id] \in AttemptPcs
        /\ Top(frames[id]).cancellation_requested
        /\ Top(frames[id]).cancelled_by = requests[id].user_id
        /\ pc'[id] # pc[id]) =>
         /\ pc'[id] = "done"
         /\ returned'[id].status # "completed"]_vars

\* C18: the history only holds terminal results: after an execution has
\* finished, the entry of its id is COMPLETED, FAILED or CANCELLED, is the
\* result returned to the caller, and is what get_execution_status reports.
C18_HistoryHoldsTerminalResults ==
  \A id \in ReqIds :
    /\ _completed_executions[id].status
         \in {"none", "completed", "failed", "cancelled"}
    /\ pc[id] = "done" =>
         /\ _completed_executions[id] = returned[id]
         /\ get_execution_status(id) = returned[id]

\* ======================================================================
\*                    Claims about the chat service
\* ======================================================================

\* "Interaction {interaction_id} has expired" (InteractionExpiredException)
InteractionExpiredMessage == <<"interaction", "has", "expired">>

\* C6: in every reachable state of every session, the status is
\* WAITING_FOR_AUTH or WAITING_FOR_INPUT iff a pending interaction is set.
C6_WaitingIffPending ==
  \A sid \in SessionIds :
    workflow_sessions[sid].status # "none" =>
      (workflow_sessions[sid].status \in WaitingStatuses
         <=> workflow_sessions[sid].pending_interaction # 0)

\* C7: once the status of a session is COMPLETED, FAILED or CANCELLED it
\* never changes again.
C7_TerminalIsFinal ==
  [][\A sid \in SessionIds :
       workflow_sessions[sid].status \in TerminalStatuses =>
         workflow_sessions'[sid].status = workflow_sessions[sid].status]_vars

\* C8: a `cancelled` response to a pending interaction leaves the owning
\* session CANCELLED, with no pending interaction, and the interaction
\* removed from the store.
C8_CancelledResponseCancels ==
  [][\A iid \in InteractionIds :
       handle_interaction_response(iid, "cancelled") =>
         /\ workflow_sessions'[FindSession(iid)].status = "cancelled"
         /\ workflow_sessions'[FindSession(iid)].pending_interaction = 0
         /\ ~interactions'[iid].stored]_vars

\* C9: when the sweep deletes an expired interaction, the session that owns
\* it becomes FAILED with the 'interaction expired' error, so no session
\* keeps waiting for an interaction that was swept from the store.
C9_ExpirySweepFailsSession ==
  [][cleanup_expired_sessions =>
       \A iid \in ExpiredInteractions, sid \in SessionIds :
         workflow_sessions[sid].pending_interaction = iid =>
           /\ ~interactions'[iid].stored
           /\ workflow_sessions'[sid].status = "failed"
           /\ workflow_sessions'[sid].error = InteractionExpiredMessage]_vars

\* C10: an interaction is removed from the store when it is consumed: once
\* a session resumes from its pending interaction, by an interaction
\* response or by a follow-up message, the interaction is no longer stored
\* (or the resuming handler still holds it to delete it on return), and a
\* second response with the same id is rejected.
C10_ConsumedInteractionRemoved ==
  [][\A sid \in SessionIds, iid \in InteractionIds :
       (/\ workflow_sessions[sid].pending_interaction = iid
        /\ workflow_sessions'[sid].pending_interaction = 0) =>
         /\ \/ ~interactions'[iid].stored
            \/ in_flight'[sid].interaction_id = iid
         /\ \A rt \in ResponseTypes :
              ~(handle_interaction_response_accepts(iid, rt))']_vars

StepStatuses == {"processing", "completed", "failed", "waiting_for_auth",
                 "waiting_for_input"}

\* the session resumes from its pending interaction in this step
Resumes(sid) ==
  /\ workflow_sessions[sid].pending_interaction # 0
  /\ workflow_sessions'[sid].pending_interaction = 0
  /\ in_flight'[sid].at = "normalize"

\* C11: a resume from an AUTH or a clarification interaction executes no
\* step that was recorded as completed before the suspension, and the
\* outcomes of the earlier steps are still present afterwards.
C11_ResumeSkipsCompletedSteps ==
  [][\A sid \in SessionIds :
       Resumes(sid) =>
         /\ \A i \in DOMAIN ContinueCalls :
              workflow_sessions[sid].step_results[ContinueCalls[i][1]]
                # "completed"
         /\ \A k \in Steps :
              workflow_sessions[sid].step_results[k] = "completed" =>
                workflow_sessions'[sid].step_results[k] = "completed"]_vars

\* C12: on an oauth_completed response the remaining steps are resumed only
\* if the owner now holds a credential for the session's app.
C12_OAuthCompletedRechecksCredential ==
  [][\A iid \in InteractionIds :
       (/\ handle_interaction_response(iid, "oauth_completed")
        /\ in_flight'[FindSession(iid)].at = "normalize") =>
         <<workflow_sessions[FindSession(iid)].user_id,
           workflow_sessions[FindSession(iid)].selected_app>> \in credentials]_vars

\* C14: add_step_result on a session whose status is WAITING_FOR_AUTH or
\* WAITING_FOR_INPUT leaves step_results and current_step unchanged.
C14_RecordStepRejectedWhileWaiting ==
  \A sid \in SessionIds, k \in Steps, st \in StepStatuses :
    workflow_sessions[sid].status \in WaitingStatuses =>
      /\ add_step_result(workflow_sessions[sid], k, st).step_results
           = workflow_sessions[sid].step_results
      /\ add_step_result(workflow_sessions[sid], k, st).current_step
           = workflow_sessions[sid].current_step

\* C15: clear_pending_interaction on a session without a pending
\* interaction leaves the session status unchanged.
C15_ResolveWithoutPendingRejected ==
  \A sid \in SessionIds :
    (/\ workflow_sessions[sid].status # "none"
     /\ workflow_sessions[sid].pending_interaction = 0) =>
      clear_pending_interaction(workflow_sessions[sid]).status
        = workflow_sessions[sid].status

\* ======================================================================
\*                     Claims about workflow plans
\* ======================================================================

\* the app of the k-th action of the planned order
StepApp(k) ==
  ActionOf(workflow.actions, workflow.execution_order[k]).app_name

\* the k-th action of the planned order was executed and its outcome kept
StepExecuted(k) ==
  \E i \in DOMAIN workflow.results :
    workflow.results[i].key = workflow.execution_order[k]

\* the awaited execute_action returns a failed result to the plan loop
StepFails ==
  /\ workflow.at = "executing"
  /\ pc[workflow.request] = "done"
  /\ returned[workflow.request].status # "completed"
  /\ workflow_step_returns

\* C13: when the authorization check of a step of a multi-step plan fails,
\* the plan is not failed as a whole: the steps before it are executed and
\* keep their outcomes, and the outcome is needs-interaction, not FAILED.
C13_AuthFailureSuspendsPlan ==
  \A k \in DOMAIN workflow.execution_order :
    (/\ workflow.at = "done"
     /\ Len(workflow.execution_order) > 1
     /\ <<StepApp(k), FALSE>> \in workflow.auth_checks
     /\ \A j \in 1..(k - 1) : <<StepApp(j), TRUE>> \in workflow.auth_checks) =>
      /\ workflow.status # "failed"
      /\ \A j \in 1..(k - 1) : StepExecuted(j)

\* C19: the steps of a plan are executed in list order, and when a step
\* fails with a failure that is not rate-limit-classified, no later step is
\* executed.
C19_SequentialStopsOnFailure ==
  [][/\ workflow'.pos >= workflow.pos
     /\ (/\ StepFails
         /\ ~InSeq(returned[workflow.request].error, "rate limit")
         /\ ~InSeq(returned[workflow.request].error, "429")) =>
          /\ workflow'.at = "done"
          /\ UNCHANGED <<requests, pc, frames>>]_vars

\* C20: a plan stops immediately when a step fails with an authorization
\* failure, also the one raised when the executor's own credential check
\* for the step fails: no later step is executed.
C20_StopsOnAuthorizationFailure ==
  [][(/\ StepFails
      /\ \/ StopsOnError(returned[workflow.request].error)
         \/ returned[workflow.request].error =
              AuthErrorMessage(requests[workflow.request].user_id,
                               requests[workflow.request].app_name)) =>
       /\ workflow'.at = "done"
       /\ UNCHANGED <<requests, pc, frames>>]_vars

\* the number of executed steps whose recorded outcome is COMPLETED
CompletedOutcomes ==
  Cardinality({i \in DOMAIN workflow.results :
                 workflow.results[i].status = "completed"})

C24_OverallStatus ==
  /\ workflow.at = "done" =>
       /\ workflow.status = "completed"
            <=> CompletedOutcomes = Len(workflow.execution_order)
       /\ workflow.status = "partially_completed"
            <=> /\ CompletedOutcomes > 0
                /\ CompletedOutcomes < Len(workflow.execution_order)
       /\ workflow.status = "failed" <=> CompletedOutcomes = 0
  /\ workflow.at \in {"executing", "done"} =>
       \A id \in ReqIds :
         (pc[id] = "done" /\ (workflow.at = "executing" => id # workflow.request)) =>
           \E i \in DOMAIN workflow.results :
             /\ workflow.results[i].status = returned[id].status
             /\ workflow.results[i].error = returned[id].error
             /\ ActionOf(workflow.actions, workflow.results[i].key).app_name
                  = requests[id].app_name

\* C24 witness: X failed transiently with its retries exhausted, Y
\* succeeded: 'partially_completed' with both outcomes
C24_Witness ==
  /\ workflow.at = "done"
  /\ workflow.status = "partially_completed"
  /\ Len(workflow.results) = 2
  /\ workflow.results[1].status = "failed"
  /\ _is_retryable_error(workflow.results[1].error)
  /\ \E id \in ReqIds : requests[id].retry_count = requests[id].max_retries
  /\ workflow.results[2].status = "completed"

\* ======================================================================
\*                       Claims about task trees
\* ======================================================================

\* the executed tree and the nodes directly below its root
ExecutedNodes ==
  {task_execution.task_tree}
    \cup {task_execution.task_tree.tasks[i] :
            i \in DOMAIN task_execution.task_tree.tasks}

\* the tree was executed and its result was returned
TreeExecuted ==
  /\ task_execution.at = "done"
  /\ task_execution.history # <<>>

\* C22: the success of a PARALLEL node is the logical AND over all of its
\* children: true iff every child succeeded.
C22_ParallelSuccessIsAnd ==
  TreeExecuted =>
    /\ \A node \in ExecutedNodes :
         node.kind = "parallel" =>
           (EvalNode(node, {}).success
              <=> \A i \in DOMAIN node.tasks : EvalNode(node.tasks[i], {}).success)
    /\ task_execution.task_tree.kind = "parallel" =>
         /\ task_execution.final_result
              <=> \A i \in DOMAIN task_execution.task_tree.tasks :
                    EvalNode(task_execution.task_tree.tasks[i], {}).success
         /\ Top(task_execution.history)
              = IF task_execution.final_result THEN "completed" ELSE "failed"

\* C22 witness: a PARALLEL tree with a child that succeeded and a child
\* that failed was executed and is unsuccessful
C22_Witness ==
  /\ TreeExecuted
  /\ task_execution.task_tree.kind = "parallel"
  /\ ~task_execution.final_result
  /\ \E i, j \in DOMAIN task_execution.task_tree.tasks :
       /\ EvalNode(task_execution.task_tree.tasks[i], {}).success
       /\ ~EvalNode(task_execution.task_tree.tasks[j], {}).success

\* C23: once all children of a PARALLEL node have finished, the output of
\* every child is present in the parent context.
C23_ParallelMergesOutputs ==
  (TreeExecuted /\ task_execution.task_tree.kind = "parallel") =>
    \A i \in DOMAIN task_execution.task_tree.tasks :
      LET child == EvalNode(task_execution.task_tree.tasks[i], {})
      IN (child.success /\ child.data # NoneData) =>
           \E kv \in task_execution.context : kv.value = child.data

\* ======================================================================
\*                     Claims about the order of a plan
\* ======================================================================

\* the pairs <<key, dependency>> of a list of actions
DependsOn(actions) ==
  UNION {{<<action_key(actions[i]), d>> : d \in actions[i].depends_on} :
           i \in DOMAIN actions}

\* the transitive closure of a relation
RECURSIVE TransitiveClosure(_)
TransitiveClosure(R) ==
  LET R2 == R \cup {<<pq[1][1], pq[2][2]>> :
                      pq \in {x \in R \X R : x[1][2] = x[2][1]}}
  IN IF R2 = R THEN R ELSE TransitiveClosure(R2)

\* no action depends on itself, directly or through other actions
Acyclic(actions) ==
  \A p \in TransitiveClosure(DependsOn(actions)) : p[1] # p[2]

\* every dependency is the key of an action of the list
RefersToPlanOnly(actions) ==
  \A p \in DependsOn(actions) :
    \E i \in DOMAIN actions : action_key(actions[i]) = p[2]

\* the order has one entry per action, and the key of every action once
EveryActionOnce(actions, order) ==
  /\ Len(order) = Len(actions)
  /\ \A i \in DOMAIN actions :
       Cardinality({j \in DOMAIN order : order[j] = action_key(actions[i])}) = 1

\* every action comes after the actions it depends on
AfterDependencies(actions, order) ==
  \A i \in DOMAIN actions : \A d \in actions[i].depends_on :
    \E j, k \in DOMAIN order :
      /\ j < k
      /\ order[j] = d
      /\ order[k] = action_key(actions[i])

\* C25: for a plan whose depends_on graph is acyclic and refers only to
\* actions of the plan, the computed execution order contains every action
\* exactly once and places every action after all the actions it depends on.
C25_OrderRespectsDependencies ==
  (/\ workflow.at = "ordered"
   /\ Acyclic(workflow.actions)
   /\ RefersToPlanOnly(workflow.actions)) =>
    /\ EveryActionOnce(workflow.actions, workflow.execution_order)
    /\ AfterDependencies(workflow.actions, workflow.execution_order)

\* C25 witness: an order was computed for an acyclic plan of three actions
\* in which an action is listed before an action it depends on
C25_Witness ==
  /\ workflow.at = "ordered"
  /\ Acyclic(workflow.actions)
  /\ RefersToPlanOnly(workflow.actions)
  /\ Len(workflow.actions) = 3
  /\ \E i, j \in DOMAIN workflow.actions :
       /\ i < j
       /\ action_key(workflow.actions[j]) \in workflow.actions[i].depends_on

\* C26: plan ordering terminates for every input list of actions, also with
\* a cycle or an unresolvable reference in depends_on, and the resulting
\* execution order contains every action exactly once.
C26_OrderingTerminates ==
  /\ workflow.at # "ordering"
  /\ workflow.at = "ordered" =>
       EveryActionOnce(workflow.actions, workflow.execution_order)

\* ======================================================================
\*                  Claims about the lanes of the queue
\* ======================================================================

\* C27: within one priority lane, queued requests are dispatched in
\* submission order: a request that is dispatched was queued before every
\* other request of its priority that is still waiting (ids are handed out
\* in the order of the calls; a cancelled request waits no longer).
C27_LaneIsFifo ==
  [][\A id \in ReqIds :
       (pc[id] = "pending" /\ pc'[id] = "dispatched") =>
         \A other \in ReqIds :
           (/\ pc[other] = "pending"
            /\ requests[other].priority = requests[id].priority) =>
             id <= other]_vars

\* C27 witness: two requests of the same priority were queued and both
\* were dispatched
C27_Witness ==
  \E r1, r2 \in ReqIds :
    /\ r1 < r2
    /\ pc[r1] = "dispatched"
    /\ pc[r2] = "dispatched"
    /\ requests[r1].priority = requests[r2].priority

\* ======================================================================
\*               Claims about the sessions of a conversation
\* ======================================================================

NonTerminalStatuses ==
  {"pending", "processing", "waiting_for_auth", "waiting_for_input"}

\* the non-terminal sessions of a conversation
NonTerminalSessions(c) ==
  {sid \in SessionIds :
     /\ \E i \in DOMAIN conversations[c].workflow_sessions :
          conversations[c].workflow_sessions[i] = sid
     /\ workflow_sessions[sid].status \in NonTerminalStatuses}

\* C28: each conversation has at most one non-terminal WorkflowSession at
\* any time, for every interleaving of send_message and interaction
\* responses on that conversation.
C28_OneNonTerminalSession ==
  \A c \in ConversationIds : Cardinality(NonTerminalSessions(c)) <= 1

\* C29: the current_step marker of a WorkflowSession never decreases over
\* the lifetime of the session, including across suspension on an
\* interaction and the resume: neither from one step of a handler to the
\* next, nor in the add_step_result calls a resume makes.
C29_CurrentStepMonotone ==
  [][\A sid \in SessionIds :
       (/\ workflow_sessions[sid].status # "none"
        /\ workflow_sessions'[sid].status # "none") =>
         /\ workflow_sessions'[sid].current_step
              >= workflow_sessions[sid].current_step
         /\ Resumes(sid) =>
              \A i \in DOMAIN ContinueCalls :
                ContinueCalls[i][1] >= workflow_sessions[sid].current_step]_vars

\* C30: a failed authentication check (the owner holds no credential for
\* the selected app) always suspends the session with an interaction in
\* WAITING_FOR_AUTH; it is never recorded as a completed step and the
\* workflow does not go on towards step 7.
C30_FailedCheckSuspends ==
  [][\A sid \in SessionIds : \A o \in {"oauth_url", "no_url"} :
       (/\ <<workflow_sessions[sid].user_id,
             workflow_sessions[sid].selected_app>> \notin credentials
        /\ check_authentication_done(sid, o)) =>
         /\ workflow_sessions'[sid].status = "waiting_for_auth"
         /\ workflow_sessions'[sid].pending_interaction # 0
         /\ workflow_sessions'[sid].step_results[25] # "completed"
         /\ in_flight'[sid].at = "idle"]_vars

\* ======================================================================
\*                 Claims about ComposioWorkflowService
\* ======================================================================

\* the step numbers recorded in the result
StepsRun == {workflow_result.steps[i].step_number :
               i \in DOMAIN workflow_result.steps}

\* C31: the 7-step workflow does not proceed past step 2.5 when the
\* authentication of the selected app is not verified: steps 3 to 7 are
\* not run, an error is reported and success is never reported.
C31_StopsWhenNotAuthenticated ==
  (/\ 25 \in StepsRun
   /\ ~workflow_result.auth_verified) =>
    /\ StepsRun \cap {30, 40, 50, 60, 70} = {}
    /\ ~workflow_result.success
    /\ workflow_result.at = "returned"
    /\ workflow_result.error # NoText

\* ======================================================================
\*               Claims about the bookkeeping of the executor
\* ======================================================================

\* C32: the number of requests in RUNNING state at the same time never
\* exceeds a fixed concurrency bound, however many requests are queued or
\* submitted for immediate execution: the requests of a scenario never all
\* run at once.
C32_RunningBounded ==
  Cardinality(_running_executions) < Cardinality(ReqIds)

\* C33: the delay before a retry is min(300, 2^retry_count) seconds, and
\* the delays of the successive retries of one request are strictly
\* increasing for every value of max_retries: when a retry is scheduled
\* after an earlier one, it sleeps longer than the earlier one did.
C33_BackoffStrictlyIncreasing ==
  [][\A id \in ReqIds :
       (/\ pc[id] # "backoff"
        /\ pc'[id] = "backoff"
        /\ requests[id].retry_count >= 1) =>
         /\ requests'[id].retry_count = requests[id].retry_count + 1
         /\ retry_delay(requests'[id].retry_count)
              > retry_delay(requests[id].retry_count)]_vars

\* ======================================================================
\*                Claims about the context of a plan
\* ======================================================================

\* C34: the execution context of a plan is enriched only by successfully
\* completed steps: when a step returns COMPLETED, its output is in the
\* context under the step's '<name>_result' key before the next step is
\* started, and a step that fails leaves the context unchanged.
C34_ContextEnrichedBySuccess ==
  [][(/\ workflow.at = "executing"
      /\ pc[workflow.request] = "done"
      /\ workflow' # workflow) =>
       LET key == workflow.execution_order[workflow.pos]
       IN workflow'.workflow_context =
            IF returned[workflow.request].status = "completed"
            THEN workflow.workflow_context \cup {context_key(key)}
            ELSE workflow.workflow_context]_vars

\* ======================================================================
\*                  Claims about the statistics
\* ======================================================================

\* the requests whose execution has finished
FinishedExecutions == {id \in ReqIds : pc[id] = "done"}

\* C35: total_executions = successful_executions + failed_executions in
\* every reachable state, and every finished execution of a request
\* (COMPLETED, FAILED through an unsuccessful tool result, or FAILED
\* through an exception) is counted exactly once in total_executions.
C35_StatsCountEveryExecution ==
  /\ _execution_stats.total_executions
       = _execution_stats.successful_executions
           + _execution_stats.failed_executions
  /\ _execution_stats.total_executions = Cardinality(FinishedExecutions)

\* the keys of self._completed_executions
CompletedIds == {id \in ReqIds : _completed_executions[id] # NoResult}

\* the positions of the lanes that hold the id
LanePositions(id) ==
  {<<p, i>> \in Priorities \X (1..Cardinality(ReqIds)) :
     i <= Len(_execution_queues[p]) /\ _execution_queues[p][i] = id}

\* C36: at every point where control can switch between coroutines, the
\* ids held in the priority lanes are exactly the keys of the pending map,
\* each id once and in the lane of its own priority, and no request id is
\* in more than one of the pending, running and completed sets.
C36_BookkeepingConsistent ==
  /\ \A id \in ReqIds :
       IF id \in _pending_requests
       THEN LanePositions(id) \subseteq
              {<<requests[id].priority, i>> : i \in 1..Cardinality(ReqIds)}
            /\ Cardinality(LanePositions(id)) = 1
       ELSE LanePositions(id) = {}
  /\ _pending_requests \cap _running_executions = {}
  /\ _pending_requests \cap CompletedIds = {}
  /\ _running_executions \cap CompletedIds = {}

\* C36 witness: a request waits in its lane while another request has an
\* entry in the completed map, and the queue loop is stopped
C36_Witness ==
  \E r1, r2 \in ReqIds :
    /\ r1 # r2
    /\ r1 \in _pending_requests
    /\ r2 \in CompletedIds
    /\ ~_processing_active

\* C37: from the moment a request is submitted, get_execution_status(id)
\* never returns None, and cancel_execution by its owner returns true at
\* any time before the execution has finished, also between the queue loop
\* taking the request from the pending map and its task registering it as
\* running.
C37_AlwaysVisibleAndCancellable ==
  \A id \in ReqIds :
    pc[id] # "unused" =>
      /\ get_execution_status(id) # NoResult
      /\ pc[id] \notin {"done", "cancelled"} =>
           cancel_execution_returns(id, requests[id].user_id)

\* ======================================================================
\*           Claims about cancelling a task-tree execution
\* ======================================================================

\* C38: once cancel_execution has succeeded for an active task-tree
\* execution, the record of that execution keeps status 'cancelled' and
\* appears exactly once in the execution history, whatever the
\* execute_task_tree coroutine does when it finishes later.
C38_CancelledRecordStays ==
  [][(\E k \in DOMAIN task_execution.history :
        task_execution.history[k] = "cancelled") =>
       /\ task_execution'.record = "cancelled"
       /\ task_execution'.history = <<"cancelled">>]_vars

\* C39: while queue processing stays active (the bounded id space ends the
\* submissions), a pending request does not stay pending: the loop takes
\* it, or its owner cancels it; a step dispatches at most one request, and
\* an iteration that raises leaves the loop alive and the flag set.
C39_PendingEventuallyDispatched ==
  /\ [][Cardinality({id \in ReqIds : pc[id] = "pending" /\ pc'[id] = "dispatched"}) <= 1]_vars
  /\ [][_queue_processor_task = "polling" /\ _queue_processor_task' # "polling" /\ _processing_active'
         => _queue_processor_task' = "backoff"]_vars
  /\ (<>[]_processing_active) =>
       \A id \in 1..MaxQueueReq :
         (pc[id] = "pending") ~> (pc[id] \in {"dispatched", "cancelled"})

\* the loop has dispatched one request and an iteration has then raised
\* while another request is still pending
C39_Witness ==
  \E id \in ReqIds :
    /\ pc[id] = "dispatched"
    /\ _processing_active
    /\ _queue_processor_task = "backoff"
    /\ \E other \in ReqIds : pc[other] = "pending"

\* C40: the history of a user holds every running or completed execution
\* whose request belongs to that user, and no execution of another user.
C40_HistoryOfUser ==
  \A u \in QueueUsers :
    /\ \A id \in CompletedIds \cup _running_executions :
         requests[id].user_id = u => id \in get_user_execution_history(u)
    /\ \A id \in get_user_execution_history(u) : requests[id].user_id = u

====
